---- MODULE Spec2Model ----
(***************************************************************************)
(* A model of the operation builders, the amount codec and the Account of  *)
(* atticlab-js-base (src/src/operation.js, src/src/account.js).            *)
(*                                                                         *)
(* JavaScript values are records [t, s, n]: t is the type tag, s the       *)
(* characters of a string (a sequence of one-character strings) or the     *)
(* bytes of a Buffer, n the value of an integral number.                   *)
(***************************************************************************)
EXTENDS Integers, Sequences, FiniteSets, TLC

VARIABLES value, allowZero, ledger, rendered, ret, op,
          builder, given, opts, built, decoded,
          args, acct, returned, call, increments, txs, outcome,
          strkey, price, uint, threads, mode

amountVars == <<value, allowZero, ledger, rendered, ret, op>>

opsVars == <<builder, given, opts, built, decoded>>

accountVars == <<args, acct, returned, call, increments>>

txVars == <<txs, outcome>>

codecVars == <<strkey, price, uint>>

raceVars == <<threads, mode>>

vars ==
    <<value, allowZero, ledger, rendered, ret, op, builder, given, opts, built, decoded,
      args, acct, returned, call, increments, txs, outcome,
      strkey, price, uint, threads, mode>>

----------------------------------------------------------------------------
(* JavaScript values *)

Undefined == [t |-> "undefined", s |-> <<>>, n |-> 0]

Null == [t |-> "null", s |-> <<>>, n |-> 0]

Str(chars) == [t |-> "string", s |-> chars, n |-> 0]

Num(k) == [t |-> "number", s |-> <<>>, n |-> k]

\* a finite number that is not an integer; n is its floor
NonInt(k) == [t |-> "nonint", s |-> <<>>, n |-> k]

NaN == [t |-> "NaN", s |-> <<>>, n |-> 0]

PosInfinity == [t |-> "Infinity", s |-> <<>>, n |-> 0]

NegInfinity == [t |-> "-Infinity", s |-> <<>>, n |-> 0]

Bool(b) == [t |-> "boolean", s |-> <<>>, n |-> IF b THEN 1 ELSE 0]

EmptyObject == [t |-> "object", s |-> <<>>, n |-> 0]

EmptyArray == [t |-> "array", s |-> <<>>, n |-> 0]

\* a Buffer of the given bytes, each byte kept under its decimal name
Buf(bytes) ==
    [t |-> "buffer", s |-> [i \in 1..Len(bytes) |-> ToString(bytes[i])], n |-> 0]

Thrown(msg) == [t |-> "throw", s |-> <<msg>>, n |-> 0]

isString(v) == v.t = "string"

isUndefined(v) == v.t = "undefined"

----------------------------------------------------------------------------
(* Characters and digit sequences *)

DigitChars == <<"0", "1", "2", "3", "4", "5", "6", "7", "8", "9">>

IsDigit(c) == \E i \in 1..10 : DigitChars[i] = c

DigitVal(c) == (CHOOSE i \in 1..10 : DigitChars[i] = c) - 1

AllDigits(s) == \A i \in 1..Len(s) : IsDigit(s[i])

\* index of the first element of s satisfying one of the characters cs, 0 if none
IndexOf(s, cs) ==
    IF \E i \in 1..Len(s) : s[i] \in cs
    THEN CHOOSE i \in 1..Len(s) : s[i] \in cs /\ \A j \in 1..(i - 1) : s[j] \notin cs
    ELSE 0

Slice(s, from, to) == IF from > to THEN <<>> ELSE SubSeq(s, from, to)

Zeros(k) == [i \in 1..k |-> "0"]

\* the number of leading "0" characters of s
LeadingZeros(s) ==
    IF \E i \in 1..Len(s) : s[i] # "0"
    THEN (CHOOSE i \in 1..Len(s) : s[i] # "0" /\ \A j \in 1..(i - 1) : s[j] = "0") - 1
    ELSE Len(s)

\* the number of trailing "0" characters of s
TrailingZeros(s) ==
    IF \E i \in 1..Len(s) : s[i] # "0"
    THEN Len(s) - (CHOOSE i \in 1..Len(s) : s[i] # "0" /\ \A j \in (i + 1)..Len(s) : s[j] = "0")
    ELSE Len(s)

\* a small natural number written in decimal
RECURSIVE NatToChars(_)
NatToChars(k) ==
    IF k < 10 THEN <<DigitChars[k + 1]>>
    ELSE NatToChars(k \div 10) \o <<DigitChars[(k % 10) + 1]>>

\* the value of a short digit sequence (exponents, flags, weights)
RECURSIVE CharsToNat(_)
CharsToNat(s) ==
    IF s = <<>> THEN 0
    ELSE 10 * CharsToNat(Slice(s, 1, Len(s) - 1)) + DigitVal(s[Len(s)])

----------------------------------------------------------------------------
(* bignumber.js, as operation.js uses it.  A BigNumber is [k, neg, c, e]:  *)
(* k is "fin", "inf" or "nan" ("throw" when the constructor raised), neg   *)
(* the sign, c the coefficient digits without leading or trailing zeros    *)
(* (<<"0">> for zero) and e the decimal exponent of the first digit.       *)

BNThrow == [k |-> "throw", neg |-> FALSE, c |-> <<>>, e |-> 0]

BNNaN == [k |-> "nan", neg |-> FALSE, c |-> <<>>, e |-> 0]

BNInf(negative) == [k |-> "inf", neg |-> negative, c |-> <<>>, e |-> 0]

\* characters that are not \w and may occur in an input
NonWordChars == {".", "-", "+", " "}

\* the characters before the exponent letter of an unsigned numeric string
MantissaOf(body) ==
    IF IndexOf(body, {"e", "E"}) = 0 THEN body
    ELSE Slice(body, 1, IndexOf(body, {"e", "E"}) - 1)

\* the characters after the exponent letter
ExponentOf(body) ==
    IF IndexOf(body, {"e", "E"}) = 0 THEN <<>>
    ELSE Slice(body, IndexOf(body, {"e", "E"}) + 1, Len(body))

IntegerOf(mant) ==
    IF IndexOf(mant, {"."}) = 0 THEN mant ELSE Slice(mant, 1, IndexOf(mant, {"."}) - 1)

FractionOf(mant) ==
    IF IndexOf(mant, {"."}) = 0 THEN <<>>
    ELSE Slice(mant, IndexOf(mant, {"."}) + 1, Len(mant))

ExpDigits(expStr) ==
    IF expStr # <<>> /\ expStr[1] \in {"+", "-"} THEN Tail(expStr) ELSE expStr

ExpOK(hasExp, expStr) ==
    ~hasExp \/ (ExpDigits(expStr) # <<>> /\ AllDigits(ExpDigits(expStr)))

LexParts(neg, mant, hasExp, expStr) ==
    [ok |-> /\ AllDigits(IntegerOf(mant))
            /\ AllDigits(FractionOf(mant))
            /\ (IntegerOf(mant) # <<>> \/ FractionOf(mant) # <<>>)
            /\ ExpOK(hasExp, expStr),
     neg |-> neg,
     int |-> IntegerOf(mant),
     frac |-> FractionOf(mant),
     exp |-> IF ~hasExp \/ ~ExpOK(hasExp, expStr) THEN 0
             ELSE IF expStr[1] = "-" THEN 0 - CharsToNat(ExpDigits(expStr))
             ELSE CharsToNat(ExpDigits(expStr))]

LexBody(neg, body) ==
    LexParts(neg, MantissaOf(body), IndexOf(body, {"e", "E"}) # 0, ExponentOf(body))

\* isNumeric = /^-?(\d+(\.\d*)?|\.\d+)(e[+-]?\d+)?$/i, with the parts it matched
Lex(chars) ==
    LexBody(chars # <<>> /\ chars[1] = "-",
            IF chars # <<>> /\ chars[1] = "-" THEN Tail(chars) ELSE chars)

\* the number of blanks a string starts with
LeadingBlanks(chars) ==
    IF \E i \in 1..Len(chars) : chars[i] # " "
    THEN (CHOOSE i \in 1..Len(chars) :
              chars[i] # " " /\ \A j \in 1..(i - 1) : chars[j] = " ") - 1
    ELSE Len(chars)

\* where the text starts after the leading blanks and a plus sign before a
\* word character or a point
StripFrom(chars, lead) ==
    IF /\ lead + 2 <= Len(chars)
       /\ chars[lead + 1] = "+"
       /\ chars[lead + 2] \notin (NonWordChars \ {"."})
    THEN lead + 2
    ELSE lead + 1

\* rest without its trailing blanks; a rest of blanks only was matched as
\* leading blanks when nothing came before it
StripTrailing(rest, from) ==
    IF \E i \in 1..Len(rest) : rest[i] # " "
    THEN Slice(rest, 1, CHOOSE i \in 1..Len(rest) :
                            rest[i] # " " /\ \A j \in (i + 1)..Len(rest) : rest[j] = " ")
    ELSE IF from > 1 THEN rest ELSE <<>>

StripRest(chars, from) == StripTrailing(Slice(chars, from, Len(chars)), from)

\* str.replace(whitespaceOrPlus, ''), whitespaceOrPlus = /^\s*\+(?=[\w.])|^\s+|\s+$/g
StripWhitespaceOrPlus(chars) == StripRest(chars, StripFrom(chars, LeadingBlanks(chars)))

InfinityChars == <<"I", "n", "f", "i", "n", "i", "t", "y">>

NaNChars == <<"N", "a", "N">>

\* the digits and exponent of a matched numeric string, normalised
Normalise(p) ==
    LET digits == p.int \o p.frac
        lz == LeadingZeros(digits)
        tz == TrailingZeros(digits)
    IN  IF lz = Len(digits)
        THEN [k |-> "fin", neg |-> p.neg, c |-> <<"0">>, e |-> 0]
        ELSE [k |-> "fin", neg |-> p.neg,
              c |-> Slice(digits, lz + 1, Len(digits) - tz),
              e |-> Len(p.int) + p.exp - lz - 1]

\* new BigNumber(str) with ERRORS on: a string that is no number raises
RECURSIVE BigNumber(_)

BigNumberStripped(chars, s) ==
    IF s = InfinityChars THEN BNInf(FALSE)
    ELSE IF s = <<"-">> \o InfinityChars THEN BNInf(TRUE)
    ELSE IF s = NaNChars \/ s = <<"-">> \o NaNChars THEN BNNaN
    ELSE IF s # chars THEN BigNumber(s)
    ELSE BNThrow

BigNumberLexed(chars, p) ==
    IF p.ok THEN Normalise(p) ELSE BigNumberStripped(chars, StripWhitespaceOrPlus(chars))

BigNumber(chars) == BigNumberLexed(chars, Lex(chars))

isZero(x) == x.k = "fin" /\ x.c = <<"0">>

isNegative(x) == x.k # "nan" /\ x.neg

isFinite(x) == x.k = "fin"

isNaN(x) == x.k = "nan"

\* x.times(y) for y a power of ten (y.c = <<"1">>), the only multiplier used
times(x, y) ==
    CASE x.k = "nan" \/ y.k = "nan" -> BNNaN
      [] x.k = "inf" /\ isZero(y) -> BNNaN
      [] x.k = "inf" -> BNInf(x.neg # y.neg)
      [] x.k = "fin" /\ (isZero(x) \/ isZero(y)) ->
             [k |-> "fin", neg |-> x.neg # y.neg, c |-> <<"0">>, e |-> 0]
      [] x.k = "fin" /\ y.k = "fin" /\ y.c = <<"1">> ->
             [k |-> "fin", neg |-> x.neg # y.neg, c |-> x.c, e |-> x.e + y.e]

\* x.div(y) for y a positive power of ten; exact while the quotient has at most
\* DECIMAL_PLACES (20) decimal places
div(x, y) ==
    CASE x.k = "nan" \/ y.k = "nan" -> BNNaN
      [] x.k = "inf" -> BNInf(x.neg # y.neg)
      [] x.k = "fin" /\ isZero(x) ->
             [k |-> "fin", neg |-> x.neg # y.neg, c |-> <<"0">>, e |-> 0]
      [] x.k = "fin" /\ y.k = "fin" /\ y.c = <<"1">> ->
             [k |-> "fin", neg |-> x.neg # y.neg, c |-> x.c, e |-> x.e - y.e]

\* the first index at which two digit sequences differ, 0 if one is a prefix
FirstDiff(a, b) ==
    LET m == IF Len(a) < Len(b) THEN Len(a) ELSE Len(b)
    IN  IF \E i \in 1..m : a[i] # b[i]
        THEN CHOOSE i \in 1..m : a[i] # b[i] /\ \A j \in 1..(i - 1) : a[j] = b[j]
        ELSE 0

\* compare(x, y): 1, 0, -1, or 2 for null (a NaN operand)
compare(x, y) ==
    LET sx == IF x.neg THEN 0 - 1 ELSE 1
        sy == IF y.neg THEN 0 - 1 ELSE 1
        d == FirstDiff(x.c, y.c)
    IN  IF x.k = "nan" \/ y.k = "nan" THEN 2
        ELSE IF isZero(x) \/ isZero(y)
             THEN (IF isZero(x) THEN (IF isZero(y) THEN 0 ELSE 0 - sy) ELSE sx)
        ELSE IF sx # sy THEN sx
        ELSE IF x.k = "inf" \/ y.k = "inf"
             THEN (IF x.k = y.k THEN 0
                   ELSE IF (x.k = "inf") # x.neg THEN 1 ELSE 0 - 1)
        ELSE IF x.e # y.e THEN (IF (x.e > y.e) # x.neg THEN 1 ELSE 0 - 1)
        ELSE IF d # 0
             THEN (IF (DigitVal(x.c[d]) > DigitVal(y.c[d])) # x.neg THEN 1 ELSE 0 - 1)
        ELSE IF Len(x.c) = Len(y.c) THEN 0
        ELSE IF (Len(x.c) > Len(y.c)) # x.neg THEN 1 ELSE 0 - 1

\* greaterThan taken for greaterThanOrEqualTo
greaterThan_orEqual(x, y) == compare(x, y) \in {0, 1}

greaterThan(x, y) == compare(x, y) = 1

\* x.decimalPlaces(); -1 stands for null (NaN, Infinity), and null > 7 is false
decimalPlaces(x) ==
    IF x.k # "fin" THEN 0 - 1
    ELSE IF Len(x.c) - 1 - x.e < 0 THEN 0
    ELSE Len(x.c) - 1 - x.e

TO_EXP_NEG == 0 - 7

TO_EXP_POS == 21

toExponential(c, e) ==
    (IF Len(c) > 1 THEN <<c[1], ".">> \o Tail(c) ELSE c)
        \o (IF e < 0 THEN <<"e", "-">> \o NatToChars(0 - e)
            ELSE <<"e", "+">> \o NatToChars(e))

toFixedPoint(c, e) ==
    IF e < 0 THEN <<"0", ".">> \o Zeros(0 - e - 1) \o c
    ELSE IF e + 1 >= Len(c) THEN c \o Zeros(e + 1 - Len(c))
    ELSE Slice(c, 1, e + 1) \o <<".">> \o Slice(c, e + 2, Len(c))

\* x.toString() in base 10
toString(x) ==
    IF x.k = "nan" THEN NaNChars
    ELSE IF x.k = "inf" THEN (IF x.neg THEN <<"-">> ELSE <<>>) \o InfinityChars
    ELSE (IF x.neg /\ ~isZero(x) THEN <<"-">> ELSE <<>>)
            \o (IF x.e <= TO_EXP_NEG \/ x.e >= TO_EXP_POS
                THEN toExponential(x.c, x.e)
                ELSE toFixedPoint(x.c, x.e))

----------------------------------------------------------------------------
(* js-xdr Hyper: a signed 64-bit integer, kept as [k, neg, d] with d its   *)
(* decimal digits without leading zeros.  k is "hyper", "none" (no value), *)
(* "throw" (fromString raised) or "wrapped" (the digits overflow 64 bits   *)
(* and Long.fromString wrapped them).                                      *)

NoHyper == [k |-> "none", neg |-> FALSE, d |-> <<>>]

HyperThrow == [k |-> "throw", neg |-> FALSE, d |-> <<>>]

HyperWrapped == [k |-> "wrapped", neg |-> FALSE, d |-> <<>>]

Hyper(negative, digits) == [k |-> "hyper", neg |-> negative, d |-> digits]

MAX_INT64 ==
    <<"9", "2", "2", "3", "3", "7", "2", "0", "3", "6", "8", "5",
      "4", "7", "7", "5", "8", "0", "7">>

\* a <= b for digit sequences without leading zeros
DigitsLeq(a, b) ==
    LET d == FirstDiff(a, b)
    IN  IF Len(a) # Len(b) THEN Len(a) < Len(b)
        ELSE d = 0 \/ DigitVal(a[d]) < DigitVal(b[d])

StripLeadingZeros(digits) ==
    IF LeadingZeros(digits) = Len(digits) THEN <<"0">>
    ELSE Slice(digits, LeadingZeros(digits) + 1, Len(digits))

\* Hyper.fromString(string): /^-?\d+$/ or it raises
HyperFromString(chars) ==
    LET neg == chars # <<>> /\ chars[1] = "-"
        body == IF neg THEN Tail(chars) ELSE chars
        d == StripLeadingZeros(body)
    IN  IF body = <<>> \/ ~AllDigits(body) THEN HyperThrow
        ELSE IF d = <<"0">> THEN Hyper(FALSE, d)
        ELSE IF DigitsLeq(d, MAX_INT64) THEN Hyper(neg, d)
        ELSE HyperWrapped

HyperToString(h) == (IF h.neg THEN <<"-">> ELSE <<>>) \o h.d

----------------------------------------------------------------------------
(* The amount codec of Operation *)

ONE == 10000000

\* new BigNumber(ONE): the number 10000000 as a BigNumber
BigNumberONE == BigNumber(NatToChars(ONE))

\* new BigNumber(MAX_INT64).toString() as the operand of greaterThan
BigNumberMAX == BigNumber(toString(BigNumber(MAX_INT64)))

\* the checks of isValidAmount with the decimal-places limit off by one
amountChecks_dp8(amount, az) ==
    IF amount.k = "throw" THEN FALSE
    ELSE IF ~az /\ isZero(amount) THEN FALSE
    ELSE IF isNegative(amount) THEN FALSE
    ELSE IF greaterThan(times(amount, BigNumberONE), BigNumberMAX) THEN FALSE
    ELSE IF decimalPlaces(amount) > 8 THEN FALSE
    ELSE IF ~isFinite(amount) THEN FALSE
    ELSE IF isNaN(amount) THEN FALSE
    ELSE TRUE

\* the checks isValidAmount makes on the BigNumber of the string, in its order
amountChecks(amount, az) ==
    IF amount.k = "throw" THEN FALSE
    ELSE IF ~az /\ isZero(amount) THEN FALSE
    ELSE IF isNegative(amount) THEN FALSE
    ELSE IF greaterThan(times(amount, BigNumberONE), BigNumberMAX) THEN FALSE
    ELSE IF decimalPlaces(amount) > 7 THEN FALSE
    ELSE IF ~isFinite(amount) THEN FALSE
    ELSE IF isNaN(amount) THEN FALSE
    ELSE TRUE

\* Operation.isValidAmount(value, allowZero)
isValidAmount(v, az) ==
    IF ~isString(v) THEN FALSE ELSE amountChecks(BigNumber(v.s), az)

\* the Hyper of a BigNumber as it stands
hyperOf(amount) ==
    IF amount.k = "throw" THEN HyperThrow ELSE HyperFromString(toString(amount))

\* amount.mul(ONE) left out
mulONE_unscaled(amount) == amount

\* new BigNumber(value).mul(ONE); a value that is no number has raised
mulONE(amount) ==
    IF amount.k = "throw" THEN amount ELSE times(amount, BigNumberONE)

\* Operation._toXDRAmount(value) for a string value
_toXDRAmount(v) == hyperOf(mulONE(BigNumber(v.s)))

\* Operation._fromXDRAmount(value) for a Hyper value
_fromXDRAmount(h) ==
    Str(toString(div(BigNumber(HyperToString(h)), BigNumberONE)))

----------------------------------------------------------------------------
(* StrKey: the versioned, checksummed base-32 text of raw keys.  Bytes are  *)
(* numbers in 0..255, bits are 0 or 1, most significant first.              *)

Base32Alphabet ==
    <<"A", "B", "C", "D", "E", "F", "G", "H", "I", "J", "K", "L", "M", "N", "O", "P",
      "Q", "R", "S", "T", "U", "V", "W", "X", "Y", "Z", "2", "3", "4", "5", "6", "7">>

IsBase32Char(c) == \E i \in 1..32 : Base32Alphabet[i] = c

Base32Val(c) == (CHOOSE i \in 1..32 : Base32Alphabet[i] = c) - 1

Pow2(k) == IF k = 0 THEN 1 ELSE IF k = 1 THEN 2 ELSE IF k = 2 THEN 4
           ELSE IF k = 3 THEN 8 ELSE IF k = 4 THEN 16 ELSE IF k = 5 THEN 32
           ELSE IF k = 6 THEN 64 ELSE 128

\* bit j (1 = most significant) of a w-bit number
BitOf(x, w, j) == (x \div Pow2(w - j)) % 2

\* the bits of a sequence of w-bit numbers
BitsOf(nums, w) ==
    [i \in 1..(w * Len(nums)) |-> BitOf(nums[((i - 1) \div w) + 1], w, ((i - 1) % w) + 1)]

\* the whole w-bit groups of a bit sequence, as numbers
RECURSIVE GroupVal(_, _, _)
GroupVal(bits, from, w) ==
    IF w = 0 THEN 0
    ELSE 2 * GroupVal(bits, from, w - 1) + bits[from + w - 1]

Groups(bits, w) ==
    [g \in 1..(Len(bits) \div w) |-> GroupVal(bits, (g - 1) * w + 1, w)]

base32Encode(bytes) ==
    LET bits == BitsOf(bytes, 8)
        pad == (5 - (Len(bits) % 5)) % 5
        vals == Groups(bits \o [i \in 1..pad |-> 0], 5)
    IN  [i \in 1..Len(vals) |-> Base32Alphabet[vals[i] + 1]]

base32Decode(chars) ==
    Groups(BitsOf([i \in 1..Len(chars) |-> Base32Val(chars[i])], 5), 8)

\* CRC-16/XMODEM: polynomial x^16 + x^12 + x^5 + 1, initial value 0, bit by bit
Crc16Poly == <<0, 0, 0, 1, 0, 0, 0, 0, 0, 0, 1, 0, 0, 0, 0, 1>>

\* one message bit shifted into the register
Crc16Bit(crc, b) ==
    LET shifted == Tail(crc) \o <<0>>
    IN  IF (crc[1] + b) % 2 = 1
        THEN [j \in 1..16 |-> (shifted[j] + Crc16Poly[j]) % 2]
        ELSE shifted

\* the eight bits of one byte shifted into the register
Crc16Byte(crc, byte) ==
    Crc16Bit(Crc16Bit(Crc16Bit(Crc16Bit(Crc16Bit(Crc16Bit(Crc16Bit(Crc16Bit(crc,
        BitOf(byte, 8, 1)), BitOf(byte, 8, 2)), BitOf(byte, 8, 3)), BitOf(byte, 8, 4)),
        BitOf(byte, 8, 5)), BitOf(byte, 8, 6)), BitOf(byte, 8, 7)), BitOf(byte, 8, 8))

RECURSIVE Crc16(_, _, _)
Crc16(bytes, i, crc) ==
    IF i > Len(bytes) THEN crc
    ELSE LET next == Crc16Byte(crc, bytes[i])
         IN  IF Len(next) = 16 THEN Crc16(bytes, i + 1, next) ELSE next

\* the checksum of a byte sequence as two bytes, low byte first
Checksum(bytes) ==
    LET crc == Crc16(bytes, 1, [j \in 1..16 |-> 0])
    IN  <<GroupVal(crc, 9, 8), GroupVal(crc, 1, 8)>>

VersionByte(kind) ==
    CASE kind = "ed25519PublicKey" -> 48
      [] kind = "ed25519SecretSeed" -> 144
      [] kind = "preAuthTx" -> 152
      [] kind = "sha256Hash" -> 184

RawKeyLength == 32

\* encodeCheck without the version byte
encodeCheck_unversioned(kind, raw) == base32Encode(raw \o Checksum(raw))

encodeCheck(kind, raw) ==
    LET body == <<VersionByte(kind)>> \o raw
    IN  base32Encode(body \o Checksum(body))

\* decodeBody without the comparison of the version byte
decodeBody_anyVersion(kind, body, sum) ==
    IF Checksum(body) # sum
    THEN [ok |-> FALSE, err |-> "InvalidChecksum", raw |-> <<>>]
    ELSE IF Len(body) - 1 # RawKeyLength
    THEN [ok |-> FALSE, err |-> "InvalidLength", raw |-> <<>>]
    ELSE [ok |-> TRUE, err |-> "", raw |-> Tail(body)]

\* the checks of decodeCheck on the decoded bytes: [ok, err, raw]
decodeBody(kind, body, sum) ==
    IF Checksum(body) # sum
    THEN [ok |-> FALSE, err |-> "InvalidChecksum", raw |-> <<>>]
    ELSE IF body[1] # VersionByte(kind)
    THEN [ok |-> FALSE, err |-> "InvalidVersion", raw |-> <<>>]
    ELSE IF Len(body) - 1 # RawKeyLength
    THEN [ok |-> FALSE, err |-> "InvalidLength", raw |-> <<>>]
    ELSE [ok |-> TRUE, err |-> "", raw |-> Tail(body)]

decodeBytes(kind, chars, bytes) ==
    IF Len(bytes) < 3 \/ base32Encode(bytes) # chars
    THEN [ok |-> FALSE, err |-> "InvalidEncoding", raw |-> <<>>]
    ELSE decodeBody(kind, Slice(bytes, 1, Len(bytes) - 2),
                    Slice(bytes, Len(bytes) - 1, Len(bytes)))

\* decodeCheck(kind, text): [ok, err, raw]
decodeCheck(kind, v) ==
    IF ~isString(v) \/ \E i \in 1..Len(v.s) : ~IsBase32Char(v.s[i])
    THEN [ok |-> FALSE, err |-> "InvalidEncoding", raw |-> <<>>]
    ELSE decodeBytes(kind, v.s, base32Decode(v.s))

\* the account-ids of the operation tests, a truncated one, and the seed text
\* of the first one's raw key (a valid StrKey of another kind)
AddressA ==
    Str(<<
       "G", "C", "E", "Z", "W", "K", "C", "A", "5", "V", "L", "D", "N", "R",
       "L", "N", "3", "R", "P", "R", "J", "M", "R", "Z", "O", "X", "3", "Z",
       "6", "G", "5", "C", "H", "C", "G", "S", "N", "F", "H", "E", "Y", "V",
       "X", "M", "3", "X", "O", "J", "M", "D", "S", "6", "7", "4", "J", "Z" >>)

AddressB ==
    Str(<<
       "G", "D", "G", "U", "5", "O", "A", "P", "H", "N", "P", "U", "5", "U",
       "C", "L", "E", "5", "R", "D", "J", "H", "G", "7", "P", "X", "Z", "F",
       "Q", "Y", "W", "K", "C", "F", "O", "E", "X", "S", "X", "N", "M", "R",
       "6", "K", "R", "Q", "R", "I", "5", "T", "6", "X", "X", "C", "D", "7" >>)

TruncatedAddress == Str(<<"G", "C", "E", "Z", "W">>)

SeedOfA ==
    Str(<<
       "S", "C", "E", "Z", "W", "K", "C", "A", "5", "V", "L", "D", "N", "R",
       "L", "N", "3", "R", "P", "R", "J", "M", "R", "Z", "O", "X", "3", "Z",
       "6", "G", "5", "C", "H", "C", "G", "S", "N", "F", "H", "E", "Y", "V",
       "X", "M", "3", "X", "O", "J", "M", "D", "S", "6", "6", "Y", "2", "G" >>)

KnownTexts == {AddressA.s, AddressB.s, TruncatedAddress.s, SeedOfA.s, <<>>}

\* decodeCheck for account-ids, worked out once for the known texts
PublicKeyTable == [s \in KnownTexts |-> decodeCheck("ed25519PublicKey", Str(s))]

\* StrKey.decodeEd25519PublicKey(text): [ok, err, raw]
decodeEd25519PublicKey(v) ==
    IF isString(v) /\ v.s \in KnownTexts THEN PublicKeyTable[v.s]
    ELSE decodeCheck("ed25519PublicKey", v)

\* StrKey.isValidEd25519PublicKey(text): decode without throwing
isValidEd25519PublicKey(v) == decodeEd25519PublicKey(v).ok

\* StrKey.isValid for a kind: the decoding tried, its failure turned into false
isValid(kind, v) == decodeCheck(kind, v).ok

KnownKeys == {PublicKeyTable[s].raw : s \in {AddressA.s, AddressB.s}}

AddressTable == [raw \in KnownKeys |-> Str(encodeCheck("ed25519PublicKey", raw))]

\* StrKey.encodeEd25519PublicKey(raw)
encodeEd25519PublicKey(raw) ==
    IF raw \in KnownKeys THEN AddressTable[raw]
    ELSE Str(encodeCheck("ed25519PublicKey", raw))

\* Keypair.fromPublicKey(text).xdrAccountId(): [ok, err, raw]; it throws what
\* the decoding throws
fromPublicKey(v) == decodeEd25519PublicKey(v)

----------------------------------------------------------------------------
(* JavaScript helpers used by the builders *)

\* ToBoolean(v): what `if (v)` tests
Truthy(v) ==
    CASE v.t \in {"undefined", "null", "NaN"} -> FALSE
      [] v.t = "string" -> v.s # <<>>
      [] v.t \in {"number", "boolean"} -> v.n # 0
      [] OTHER -> TRUE

\* the number of consecutive digits of s from index from on
DigitRun(s, from) ==
    IF from > Len(s) \/ ~IsDigit(s[from]) THEN 0
    ELSE CHOOSE k \in 1..(Len(s) - from + 1) :
             /\ \A i \in from..(from + k - 1) : IsDigit(s[i])
             /\ (from + k > Len(s) \/ ~IsDigit(s[from + k]))

HasPrefix(s, pre) == Len(s) >= Len(pre) /\ Slice(s, 1, Len(pre)) = pre

\* the number mantissa * 10^exp as a JavaScript value
DecimalValue(neg, intD, fracD, exp) ==
    LET all == intD \o fracD
        pos == Len(intD) + exp
        whole == IF pos <= 0 THEN <<>>
                 ELSE IF pos >= Len(all) THEN all \o Zeros(pos - Len(all))
                 ELSE Slice(all, 1, pos)
        rest == IF pos <= 0 THEN all
                ELSE IF pos >= Len(all) THEN <<>>
                ELSE Slice(all, pos + 1, Len(all))
        w == CharsToNat(StripLeadingZeros(whole))
    IN  IF \A i \in 1..Len(rest) : rest[i] = "0"
        THEN Num(IF neg THEN 0 - w ELSE w)
        ELSE NonInt(IF neg THEN 0 - w - 1 ELSE w)

\* the exponent of a decimal literal: the digits after the letter at index
\* next of body and an optional sign, 0 when there are none
ExponentAt(body, next) ==
    IF next > Len(body) \/ body[next] \notin {"e", "E"} THEN 0
    ELSE IF next + 1 <= Len(body) /\ body[next + 1] \in {"+", "-"}
    THEN IF DigitRun(body, next + 2) = 0 THEN 0
         ELSE IF body[next + 1] = "-"
         THEN 0 - CharsToNat(Slice(body, next + 2, next + 1 + DigitRun(body, next + 2)))
         ELSE CharsToNat(Slice(body, next + 2, next + 1 + DigitRun(body, next + 2)))
    ELSE IF DigitRun(body, next + 1) = 0 THEN 0
    ELSE CharsToNat(Slice(body, next + 1, next + DigitRun(body, next + 1)))

\* the literal with nInt integer digits and nFrac fraction digits after a point
ParseDigits(neg, body, nInt, hasDot, nFrac) ==
    IF nInt = 0 /\ nFrac = 0 THEN NaN
    ELSE DecimalValue(neg, Slice(body, 1, nInt),
                      Slice(body, nInt + 2, nInt + 1 + nFrac),
                      ExponentAt(body, nInt + (IF hasDot THEN 1 + nFrac ELSE 0) + 1))

ParseMantissa(neg, body, nInt) ==
    ParseDigits(neg, body, nInt, Len(body) > nInt /\ body[nInt + 1] = ".",
                IF Len(body) > nInt /\ body[nInt + 1] = "."
                THEN DigitRun(body, nInt + 2) ELSE 0)

ParseUnsigned(neg, body) ==
    IF HasPrefix(body, InfinityChars) THEN (IF neg THEN NegInfinity ELSE PosInfinity)
    ELSE ParseMantissa(neg, body, DigitRun(body, 1))

ParseSigned(s0) ==
    ParseUnsigned(s0 # <<>> /\ s0[1] = "-",
                  IF s0 # <<>> /\ s0[1] \in {"+", "-"} THEN Tail(s0) ELSE s0)

\* parseFloat(string): the value of the longest prefix that is a decimal literal
parseFloat(chars) == ParseSigned(Slice(chars, LeadingBlanks(chars) + 1, Len(chars)))

\* a thrown error: its constructor and its message, the message being the
\* name of the field it talks about followed by the rest of the text
NoError == [type |-> "", name |-> "", msg |-> ""]

Error(name, msg) == [type |-> "Error", name |-> name, msg |-> msg]

TypeError(name, msg) == [type |-> "TypeError", name |-> name, msg |-> msg]

\* x << k of JavaScript, for the small values used here
ShiftLeft(x, k) == x * Pow2(k)

RECURSIVE BitOr(_, _)
\* a | b of JavaScript on non-negative integers
BitOr(a, b) ==
    IF a = 0 THEN b
    ELSE IF b = 0 THEN a
    ELSE (IF a % 2 = 1 \/ b % 2 = 1 THEN 1 ELSE 0) + 2 * BitOr(a \div 2, b \div 2)

RECURSIVE BitAnd(_, _)
\* a & b of JavaScript on non-negative integers
BitAnd(a, b) ==
    IF a = 0 \/ b = 0 THEN 0
    ELSE (IF a % 2 = 1 /\ b % 2 = 1 THEN 1 ELSE 0) + 2 * BitAnd(a \div 2, b \div 2)

AuthRequiredFlag == ShiftLeft(1, 0)

AuthRevocableFlag == ShiftLeft(1, 1)

AuthImmutableFlag == ShiftLeft(1, 2)

BlockIncomingFlag == ShiftLeft(1, 3)

\* the last flag on the bit of the one before it
BlockOutgoingFlag_sameBit == ShiftLeft(1, 3)

BlockOutgoingFlag == ShiftLeft(1, 4)

\* the flag constants operation.js exports, by name
FlagNames ==
    { "AuthRequiredFlag", "AuthRevocableFlag", "AuthImmutableFlag",
      "BlockIncomingFlag", "BlockOutgoingFlag" }

FlagValue(name) ==
    CASE name = "AuthRequiredFlag" -> AuthRequiredFlag
      [] name = "AuthRevocableFlag" -> AuthRevocableFlag
      [] name = "AuthImmutableFlag" -> AuthImmutableFlag
      [] name = "BlockIncomingFlag" -> BlockIncomingFlag
      [] name = "BlockOutgoingFlag" -> BlockOutgoingFlag

RECURSIVE OrAll(_)
\* the flags of a set of names combined with |
OrAll(names) ==
    IF names = {} THEN 0
    ELSE BitOr(FlagValue(CHOOSE f \in names : TRUE),
               OrAll(names \ {CHOOSE f \in names : TRUE}))

\* weightCheckFunction without the upper limit
weightCheckFunction_noLimit(v, name) ==
    [ok |-> v.n >= 0, err |-> Error(name, " value must be between 0 and 255")]

\* weightCheckFunction(value, name) of setOptions: true, or it throws
weightCheckFunction(v, name) ==
    [ok |-> v.n >= 0 /\ v.n <= 255,
     err |-> Error(name, " value must be between 0 and 255")]

\* the isValidFunction of the tests, value => value < 10: when it returns
\* false the check throws its own error
lessThanTen(v, name) == [ok |-> v.n < 10, err |-> Error(name, " value is invalid")]

\* isValidFunction(value, name), the function being absent, weightCheckFunction
\* or the one of the tests: [ok, err]
isValidFunctionCall(f, v, name) ==
    CASE f = "weightCheckFunction" -> weightCheckFunction(v, name)
      [] f = "lessThanTen" -> lessThanTen(v, name)
      [] OTHER -> [ok |-> TRUE, err |-> NoError]

\* the checks of _checkUnsignedIntValue on the value as a number, with the
\* isValidFunction f
checkNumberWith(name, num, f) ==
    IF num.t # "number"
    THEN [ok |-> FALSE, val |-> Undefined, err |-> Error(name, " value is invalid")]
    ELSE IF num.n < 0
    THEN [ok |-> FALSE, val |-> Undefined, err |-> Error(name, " value must be unsigned")]
    ELSE IF f = "absent" \/ isValidFunctionCall(f, num, name).ok
    THEN [ok |-> TRUE, val |-> num, err |-> NoError]
    ELSE [ok |-> FALSE, val |-> Undefined, err |-> isValidFunctionCall(f, num, name).err]

\* the checks with weightCheckFunction or without a function
checkNumber(name, num, weighted) ==
    checkNumberWith(name, num, IF weighted THEN "weightCheckFunction" ELSE "absent")

\* the check returning the value as it was given
_checkUnsignedIntValue_unparsed(name, v, weighted) ==
    IF isUndefined(v) THEN [ok |-> TRUE, val |-> Undefined, err |-> NoError]
    ELSE [checkNumber(name, IF isString(v) THEN parseFloat(v.s) ELSE v, weighted)
             EXCEPT !.val = IF @ = Undefined THEN @ ELSE v]

\* Operation._checkUnsignedIntValue(name, value, isValidFunction): [ok, val, err];
\* weighted says whether isValidFunction is weightCheckFunction or absent
_checkUnsignedIntValue(name, v, weighted) ==
    IF isUndefined(v) THEN [ok |-> TRUE, val |-> Undefined, err |-> NoError]
    ELSE checkNumber(name, IF isString(v) THEN parseFloat(v.s) ELSE v, weighted)

\* Operation._checkUnsignedIntValue(name, value, isValidFunction) for any of
\* the three functions
_checkUnsignedIntValueWith(name, v, f) ==
    IF isUndefined(v) THEN [ok |-> TRUE, val |-> Undefined, err |-> NoError]
    ELSE checkNumberWith(name, IF isString(v) THEN parseFloat(v.s) ELSE v, f)

----------------------------------------------------------------------------
(* The XDR objects the builders make.  An operation is [status, err, tag,  *)
(* attrs, sourceAccount]; status "throw" stands for a builder that raised   *)
(* err and returned nothing.                                                *)

\* a property that was never assigned
Absent == [t |-> "absent", s |-> <<>>, n |-> 0]

\* xdr.AccountId of a raw ed25519 key
AccountId(raw) == [t |-> "accountId", s |-> raw, n |-> 0]

\* Asset.native().toXDRObject()
NativeAssetXDR == [t |-> "xdrAsset", s |-> <<"native">>, n |-> 0]

\* Asset.fromOperation of the native asset
NativeAsset == [t |-> "asset", s |-> <<"native">>, n |-> 0]

\* xdr.AccountType._byValue and xdr.SignerType._byValue: the member values
AccountTypeValues == {0, 1, 2, 3}

SignerTypeValues == {0, 1, 2}

_isValidAccountType(v) == v.t = "number" /\ v.n \in AccountTypeValues

_isValidSignerType(v) == v.t = "number" /\ v.n \in SignerTypeValues

NoXDRSigner ==
    [present |-> FALSE, arm |-> "", key |-> Undefined, weight |-> Undefined,
     signerType |-> Undefined]

\* xdr.Signer({key, weight, signerType})
XDRSigner(arm, key, weight, signerType) ==
    [present |-> TRUE, arm |-> arm, key |-> key, weight |-> weight,
     signerType |-> signerType]

NoAttrs ==
    [destination |-> Undefined, amount |-> NoHyper, startingBalance |-> NoHyper,
     accountType |-> Undefined, asset |-> Undefined, inflationDest |-> Undefined,
     clearFlags |-> Undefined, setFlags |-> Undefined, masterWeight |-> Undefined,
     lowThreshold |-> Undefined, medThreshold |-> Undefined,
     highThreshold |-> Undefined, homeDomain |-> Undefined, signer |-> NoXDRSigner,
     dataName |-> Undefined, dataValue |-> Undefined, baseFee |-> Undefined,
     account |-> Undefined]

NotBuilt ==
    [status |-> "none", err |-> NoError, tag |-> "", attrs |-> NoAttrs,
     sourceAccount |-> Undefined]

\* new xdr.Operation({body: xdr.OperationBody.<tag>(attrs), sourceAccount})
Operation(tag, attrs, sourceAccount) ==
    [status |-> "ok", err |-> NoError, tag |-> tag, attrs |-> attrs,
     sourceAccount |-> sourceAccount]

Throw(err) ==
    [status |-> "throw", err |-> err, tag |-> "", attrs |-> NoAttrs,
     sourceAccount |-> Undefined]

\* the options of a builder: every property a builder reads; a property the
\* caller left out reads as undefined
NoSigner ==
    [present |-> FALSE, ed25519PublicKey |-> Undefined, sha256Hash |-> Undefined,
     preAuthTx |-> Undefined, weight |-> Undefined, signerType |-> Undefined]

NoOpts ==
    [destination |-> Undefined, amount |-> Undefined, startingBalance |-> Undefined,
     accountType |-> Undefined, source |-> Undefined, inflationDest |-> Undefined,
     clearFlags |-> Undefined, setFlags |-> Undefined, masterWeight |-> Undefined,
     lowThreshold |-> Undefined, medThreshold |-> Undefined,
     highThreshold |-> Undefined, homeDomain |-> Undefined, signer |-> NoSigner,
     name |-> Undefined, value |-> Undefined, baseFee |-> Undefined,
     account |-> Undefined]

\* the error of the first check that failed, checks being [ok, err, ...]
\* records in the order the builder makes them
FirstError(checks) ==
    IF \A i \in 1..Len(checks) : checks[i].ok THEN NoError
    ELSE checks[CHOOSE i \in 1..Len(checks) :
                    ~checks[i].ok /\ \A j \in 1..(i - 1) : checks[j].ok].err

Passed == [ok |-> TRUE, err |-> NoError]

Failed(err) == [ok |-> FALSE, err |-> err]

\* Operation.constructAmountRequirementsError(arg) without the argument
AmountRequirements ==
    " argument must be of type String, represent a positive number and have at most 7 digits after the decimal"

\* the destination check accepting every non-empty string
destinationCheck_anyText(v) ==
    IF isString(v) /\ Truthy(v) THEN Passed ELSE Failed(Error("destination", " is invalid"))

\* if (!StrKey.isValidEd25519PublicKey(opts.destination)) throw ...
destinationCheck(v) ==
    IF isValidEd25519PublicKey(v) THEN Passed
    ELSE Failed(Error("destination", " is invalid"))

\* the amount check with zero always allowed
amountCheck_zeroAllowed(name, v, az) ==
    IF isValidAmount(v, TRUE) THEN Passed ELSE Failed(TypeError(name, AmountRequirements))

\* if (!this.isValidAmount(opts.<name>, allowZero)) throw new TypeError(...)
amountCheck(name, v, az) ==
    IF isValidAmount(v, az) THEN Passed ELSE Failed(TypeError(name, AmountRequirements))

\* setSourceAccount that takes every truthy source
setSourceAccount_unchecked(o) ==
    [ok |-> TRUE, err |-> NoError,
     account |-> IF Truthy(o.source) THEN AccountId(fromPublicKey(o.source).raw)
                 ELSE Undefined]

\* Operation.setSourceAccount(opAttributes, opts): [ok, err, account]
setSourceAccount(o) ==
    IF ~Truthy(o.source) THEN [ok |-> TRUE, err |-> NoError, account |-> Undefined]
    ELSE IF ~isValidEd25519PublicKey(o.source)
    THEN [ok |-> FALSE, err |-> Error("", "Source address is invalid"),
          account |-> Undefined]
    ELSE [ok |-> TRUE, err |-> NoError,
          account |-> AccountId(fromPublicKey(o.source).raw)]

----------------------------------------------------------------------------
(* Buffers *)

isBuffer(v) == v.t = "buffer"

\* the printable ASCII characters, from code 32 on; the double quote, the
\* backslash and the grave accent are left empty
AsciiChars ==
    <<
       " ", "!", "", "#", "$", "%", "&", "'", "(", ")", "*", "+", ",", "-", ".", "/",
       "0", "1", "2", "3", "4", "5", "6", "7", "8", "9", ":", ";", "<", "=", ">", "?",
       "@", "A", "B", "C", "D", "E", "F", "G", "H", "I", "J", "K", "L", "M", "N", "O",
       "P", "Q", "R", "S", "T", "U", "V", "W", "X", "Y", "Z", "[", "", "]", "^", "_",
       "", "a", "b", "c", "d", "e", "f", "g", "h", "i", "j", "k", "l", "m", "n", "o",
       "p", "q", "r", "s", "t", "u", "v", "w", "x", "y", "z", "{", "|", "}", "~" >>

CharCode(c) == 31 + CHOOSE i \in 1..Len(AsciiChars) : AsciiChars[i] = c

\* a character outside ASCII: U+00E9, one UTF-16 code unit, two bytes in UTF-8
EAcute == "U+00E9"

Utf8Bytes(c) == IF c = EAcute THEN <<195, 169>> ELSE <<CharCode(c)>>

RECURSIVE Utf8(_)
\* the UTF-8 encoding of a text
Utf8(chars) ==
    IF chars = <<>> THEN <<>> ELSE Utf8Bytes(Head(chars)) \o Utf8(Tail(chars))

\* new Buffer(string): the bytes of the text in UTF-8
BufferFromString(chars) == Buf(Utf8(chars))

HexDigits ==
    <<"0", "1", "2", "3", "4", "5", "6", "7", "8", "9", "a", "b", "c", "d", "e", "f">>

UpperHexDigits ==
    <<"0", "1", "2", "3", "4", "5", "6", "7", "8", "9", "A", "B", "C", "D", "E", "F">>

IsHexChar(c) == \E i \in 1..16 : HexDigits[i] = c \/ UpperHexDigits[i] = c

HexVal(c) == (CHOOSE i \in 1..16 : HexDigits[i] = c \/ UpperHexDigits[i] = c) - 1

\* Buffer.from(string, "hex"): one byte for every two digits; text that is not
\* hex digits in pairs raises
BufferFromHex(chars) ==
    IF Len(chars) % 2 = 0 /\ \A i \in 1..Len(chars) : IsHexChar(chars[i])
    THEN Buf([i \in 1..(Len(chars) \div 2) |->
                 16 * HexVal(chars[2 * i - 1]) + HexVal(chars[2 * i])])
    ELSE Thrown("Invalid hex string")

----------------------------------------------------------------------------
(* The builders of Operation, each from the options to the operation it    *)
(* returns or the error it throws                                          *)

\* what a builder returns: nothing but the error when a check failed
Outcome(err, operation) == IF err # NoError THEN Throw(err) ELSE operation

accountTypeCheck(v) ==
    IF isUndefined(v) \/ ~_isValidAccountType(v)
    THEN Failed(Error("", "Must provide an accountType for a create user operation"))
    ELSE Passed

createAccount(o) ==
    Outcome(FirstError(<< destinationCheck(o.destination),
                          amountCheck("startingBalance", o.startingBalance, TRUE),
                          accountTypeCheck(o.accountType),
                          setSourceAccount(o) >>),
            Operation("createAccount",
                [NoAttrs EXCEPT
                    !.destination = AccountId(fromPublicKey(o.destination).raw),
                    !.startingBalance = _toXDRAmount(o.startingBalance),
                    !.accountType = o.accountType],
                setSourceAccount(o).account))

emission(o) ==
    Outcome(FirstError(<< destinationCheck(o.destination),
                          amountCheck("amount", o.amount, FALSE),
                          setSourceAccount(o) >>),
            Operation("emission",
                [NoAttrs EXCEPT
                    !.destination = AccountId(fromPublicKey(o.destination).raw),
                    !.amount = _toXDRAmount(o.amount)],
                setSourceAccount(o).account))

settlement(o) ==
    Outcome(FirstError(<< amountCheck("amount", o.amount, FALSE), setSourceAccount(o) >>),
            Operation("settlement",
                [NoAttrs EXCEPT !.amount = _toXDRAmount(o.amount)],
                setSourceAccount(o).account))

payment(o) ==
    Outcome(FirstError(<< destinationCheck(o.destination),
                          amountCheck("amount", o.amount, FALSE),
                          setSourceAccount(o) >>),
            Operation("payment",
                [NoAttrs EXCEPT
                    !.destination = AccountId(fromPublicKey(o.destination).raw),
                    !.asset = NativeAssetXDR,
                    !.amount = _toXDRAmount(o.amount)],
                setSourceAccount(o).account))

accountMerge(o) ==
    Outcome(FirstError(<< destinationCheck(o.destination), setSourceAccount(o) >>),
            Operation("accountMerge",
                [NoAttrs EXCEPT
                    !.destination = AccountId(fromPublicKey(o.destination).raw)],
                setSourceAccount(o).account))

MaxDataNameLength == 64

MaxDataValueLength == 64

\* the data value with an empty Buffer in the place of null
dataValueOf_emptyForNull(v) ==
    IF isString(v) THEN BufferFromString(v.s) ELSE IF v = Null THEN Buf(<<>>) ELSE v

\* the data value manageData stores: the bytes of a string, or the value itself
dataValueOf(v) == IF isString(v) THEN BufferFromString(v.s) ELSE v

dataChecks(name, v, dataValue) ==
    << IF isString(name) /\ Len(name.s) <= MaxDataNameLength THEN Passed
       ELSE Failed(Error("name", " must be a string, up to 64 characters")),
       IF ~isString(v) /\ ~isBuffer(v) /\ v # Null
       THEN Failed(Error("value", " must be a string, Buffer or null"))
       ELSE Passed,
       IF dataValue # Null /\ Len(dataValue.s) > MaxDataValueLength
       THEN Failed(Error("value", " cannot be longer that 64 bytes"))
       ELSE Passed >>

manageData(o) ==
    Outcome(FirstError(dataChecks(o.name, o.value, dataValueOf(o.value))
                           \o << setSourceAccount(o) >>),
            Operation("manageDatum",
                [NoAttrs EXCEPT !.dataName = o.name, !.dataValue = dataValueOf(o.value)],
                setSourceAccount(o).account))

spendFee(o) ==
    Outcome(FirstError(<< destinationCheck(o.destination),
                          amountCheck("amount", o.amount, FALSE),
                          setSourceAccount(o) >>),
            Operation("spendFee",
                [NoAttrs EXCEPT
                    !.destination = AccountId(fromPublicKey(o.destination).raw),
                    !.amount = _toXDRAmount(o.amount)],
                setSourceAccount(o).account))

setFee(o) ==
    Outcome(FirstError(<< setSourceAccount(o) >>),
            Operation("setFee", [NoAttrs EXCEPT !.baseFee = o.baseFee],
                setSourceAccount(o).account))

\* Keypair.fromPublicKey(opts.account) raising what the decoding raises
accountStep(account) ==
    IF account.ok THEN Passed ELSE Failed(Error("", account.err))

restrictAccountWith(clearFlags, setFlags, account, src) ==
    Outcome(FirstError(<< clearFlags, setFlags, accountStep(account), src >>),
            Operation("restrictAccount",
                [NoAttrs EXCEPT !.clearFlags = clearFlags.val,
                                !.setFlags = setFlags.val,
                                !.account = AccountId(account.raw)],
                src.account))

restrictAccount(o) ==
    restrictAccountWith(_checkUnsignedIntValue("clearFlags", o.clearFlags, FALSE),
                        _checkUnsignedIntValue("setFlags", o.setFlags, FALSE),
                        fromPublicKey(o.account),
                        setSourceAccount(o))

HashLength == 32

\* a hash option of the signer as setOptions reads it: [set, ok, err, buf];
\* hex text is converted first, and whatever is not a 32 byte Buffer then raises
signerHashOf(name, v, buf) ==
    [set |-> Truthy(v),
     ok |-> ~Truthy(v) \/ (isBuffer(buf) /\ Len(buf.s) = HashLength),
     err |-> IF buf.t = "throw" THEN TypeError("", buf.s[1])
             ELSE Error(name, " must be 32 bytes Buffer."),
     buf |-> buf]

signerHash(name, v) ==
    signerHashOf(name, v, IF isString(v) THEN BufferFromHex(v.s) ELSE v)

signerTypeCheck(v) ==
    IF isUndefined(v) \/ ~_isValidSignerType(v)
    THEN Failed(Error("", "Must provide a valid signerType"))
    ELSE Passed

signerKeyCheck(v) ==
    IF Truthy(v) /\ ~isValidEd25519PublicKey(v)
    THEN Failed(Error("signer.ed25519PublicKey", " is invalid."))
    ELSE Passed

\* the count check that only asks for some key
signerCountCheck_atLeastOne(edSet, preSet, shaSet) ==
    IF ~edSet /\ ~preSet /\ ~shaSet
    THEN Failed(Error("",
             "Signer object must contain exactly one of signer.ed25519PublicKey, signer.sha256Hash, signer.preAuthTx."))
    ELSE Passed

\* if (setValues != 1) throw ...
signerCountCheck(edSet, preSet, shaSet) ==
    IF (IF edSet THEN 1 ELSE 0) + (IF preSet THEN 1 ELSE 0) + (IF shaSet THEN 1 ELSE 0) # 1
    THEN Failed(Error("",
             "Signer object must contain exactly one of signer.ed25519PublicKey, signer.sha256Hash, signer.preAuthTx."))
    ELSE Passed

\* the hash option as the block leaves it: the Buffer of hex text when the
\* block came as far as converting it
convertedHash(reached, h, v) ==
    IF reached /\ h.set /\ isString(v) /\ isBuffer(h.buf) THEN h.buf ELSE v

signerBlockWith(s, weight, typeCheck, edCheck, pre, sha) ==
    [ok |-> FirstError(<< weight, typeCheck, edCheck, pre, sha,
                          signerCountCheck(Truthy(s.ed25519PublicKey), pre.set, sha.set)
                       >>) = NoError,
     err |-> FirstError(<< weight, typeCheck, edCheck, pre, sha,
                           signerCountCheck(Truthy(s.ed25519PublicKey), pre.set, sha.set)
                        >>),
     signer |-> IF sha.set
                THEN XDRSigner("hashX", sha.buf, weight.val, s.signerType)
                ELSE IF pre.set
                THEN XDRSigner("preAuthTx", pre.buf, weight.val, s.signerType)
                ELSE XDRSigner("ed25519",
                         AccountId(decodeEd25519PublicKey(s.ed25519PublicKey).raw),
                         weight.val, s.signerType),
     opts |-> [s EXCEPT
                  !.preAuthTx =
                      convertedHash(weight.ok /\ typeCheck.ok /\ edCheck.ok, pre, @),
                  !.sha256Hash =
                      convertedHash(weight.ok /\ typeCheck.ok /\ edCheck.ok /\ pre.ok,
                                    sha, @)]]

\* the signer block of setOptions: [ok, err, signer, opts], opts being
\* opts.signer as the block leaves it
signerBlock(s) ==
    IF s.present
    THEN signerBlockWith(s, _checkUnsignedIntValue("signer.weight", s.weight, TRUE),
                         signerTypeCheck(s.signerType),
                         signerKeyCheck(s.ed25519PublicKey),
                         signerHash("signer.preAuthTx", s.preAuthTx),
                         signerHash("signer.sha256Hash", s.sha256Hash))
    ELSE [ok |-> TRUE, err |-> NoError, signer |-> NoXDRSigner, opts |-> s]

\* the checks of setOptions that come before the signer block
setOptionsChecks(o) ==
    << IF Truthy(o.inflationDest) /\ ~isValidEd25519PublicKey(o.inflationDest)
       THEN Failed(Error("inflationDest", " is invalid")) ELSE Passed,
       _checkUnsignedIntValue("clearFlags", o.clearFlags, FALSE),
       _checkUnsignedIntValue("setFlags", o.setFlags, FALSE),
       _checkUnsignedIntValue("masterWeight", o.masterWeight, TRUE),
       _checkUnsignedIntValue("lowThreshold", o.lowThreshold, TRUE),
       _checkUnsignedIntValue("medThreshold", o.medThreshold, TRUE),
       _checkUnsignedIntValue("highThreshold", o.highThreshold, TRUE),
       IF ~isUndefined(o.homeDomain) /\ ~isString(o.homeDomain)
       THEN Failed(TypeError("homeDomain", " argument must be of type String"))
       ELSE Passed >>

setOptionsWith(o, checks, signer, src) ==
    Outcome(FirstError(checks \o << signer, src >>),
            Operation("setOption",
                [NoAttrs EXCEPT
                    !.inflationDest =
                        IF Truthy(o.inflationDest)
                        THEN AccountId(fromPublicKey(o.inflationDest).raw)
                        ELSE Undefined,
                    !.clearFlags = checks[2].val,
                    !.setFlags = checks[3].val,
                    !.masterWeight = checks[4].val,
                    !.lowThreshold = checks[5].val,
                    !.medThreshold = checks[6].val,
                    !.highThreshold = checks[7].val,
                    !.homeDomain = o.homeDomain,
                    !.signer = signer.signer],
                src.account))

setOptions(o) ==
    setOptionsWith(o, setOptionsChecks(o), signerBlock(o.signer), setSourceAccount(o))

\* the options as setOptions leaves them: the signer block replaces hex text
\* of opts.signer by the Buffer it converts it to
setOptionsOpts(o) ==
    IF FirstError(setOptionsChecks(o)) = NoError
    THEN [o EXCEPT !.signer = signerBlock(o.signer).opts]
    ELSE o

----------------------------------------------------------------------------
(* Operation.fromXDRObject: the options read back from an operation.  A    *)
(* result is [status, err, type, asset] and the properties of the options, *)
(* Absent where the decoder assigned nothing.                              *)

NoResultSigner ==
    [present |-> FALSE, ed25519PublicKey |-> Absent, sha256Hash |-> Absent,
     preAuthTx |-> Absent, weight |-> Absent, signerType |-> Absent]

NoResult ==
    [status |-> "none", err |-> NoError, type |-> "", asset |-> Absent,
     destination |-> Absent, amount |-> Absent, startingBalance |-> Absent,
     accountType |-> Absent, source |-> Absent, inflationDest |-> Absent,
     clearFlags |-> Absent, setFlags |-> Absent, masterWeight |-> Absent,
     lowThreshold |-> Absent, medThreshold |-> Absent, highThreshold |-> Absent,
     homeDomain |-> Absent, signer |-> NoResultSigner, name |-> Absent,
     value |-> Absent, baseFee |-> Absent, account |-> Absent]

\* accountIdtoAddress always answering the first test address
accountIdtoAddress_fixed(accountId) == AddressA

accountIdtoAddress(accountId) == encodeEd25519PublicKey(accountId.s)

\* the signer object of a decoded setOptions
resultSigner(signer) ==
    [NoResultSigner EXCEPT
        !.present = TRUE,
        !.ed25519PublicKey =
            IF signer.arm = "ed25519" THEN accountIdtoAddress(signer.key) ELSE @,
        !.preAuthTx = IF signer.arm = "preAuthTx" THEN signer.key ELSE @,
        !.sha256Hash = IF signer.arm = "hashX" THEN signer.key ELSE @,
        !.weight = signer.weight,
        !.signerType = signer.signerType]

\* the switch naming the type after the body, whatever the body is
fromBody_anyTag(tag, attrs, result) == [result EXCEPT !.type = tag]

\* the switch of fromXDRObject on the name of the body, result holding the
\* source already
fromBody(tag, attrs, result) ==
    CASE tag = "createAccount" ->
             [result EXCEPT
                 !.type = "createAccount",
                 !.destination = accountIdtoAddress(attrs.destination),
                 !.startingBalance = _fromXDRAmount(attrs.startingBalance),
                 !.accountType = attrs.accountType]
      [] tag = "emission" ->
             [result EXCEPT
                 !.type = "emission",
                 !.destination = accountIdtoAddress(attrs.destination),
                 !.amount = _fromXDRAmount(attrs.amount)]
      [] tag = "settlement" ->
             [result EXCEPT
                 !.type = "settlement",
                 !.amount = _fromXDRAmount(attrs.amount)]
      [] tag = "payment" ->
             [result EXCEPT
                 !.type = "payment",
                 !.destination = accountIdtoAddress(attrs.destination),
                 !.asset = NativeAsset,
                 !.amount = _fromXDRAmount(attrs.amount)]
      [] tag = "setOption" ->
             [result EXCEPT
                 !.type = "setOptions",
                 !.inflationDest = IF Truthy(attrs.inflationDest)
                                   THEN accountIdtoAddress(attrs.inflationDest)
                                   ELSE @,
                 !.clearFlags = attrs.clearFlags,
                 !.setFlags = attrs.setFlags,
                 !.masterWeight = attrs.masterWeight,
                 !.lowThreshold = attrs.lowThreshold,
                 !.medThreshold = attrs.medThreshold,
                 !.highThreshold = attrs.highThreshold,
                 !.homeDomain = attrs.homeDomain,
                 !.signer = IF attrs.signer.present
                            THEN resultSigner(attrs.signer) ELSE @]
      [] tag = "accountMerge" ->
             [result EXCEPT
                 !.type = "accountMerge",
                 !.destination = accountIdtoAddress(attrs.destination)]
      [] tag = "manageDatum" ->
             [result EXCEPT
                 !.type = "manageData",
                 !.name = attrs.dataName,
                 !.value = attrs.dataValue]
      [] tag = "setFee" ->
             [result EXCEPT !.type = "setFee", !.baseFee = attrs.baseFee]
      [] tag = "spendFee" ->
             [result EXCEPT
                 !.type = "spendFee",
                 !.destination = accountIdtoAddress(attrs.destination),
                 !.amount = _fromXDRAmount(attrs.amount)]
      [] tag = "restrictAccount" ->
             [result EXCEPT
                 !.type = "restrictAccount",
                 !.account = accountIdtoAddress(attrs.account),
                 !.clearFlags = attrs.clearFlags,
                 !.setFlags = attrs.setFlags]
      [] OTHER ->
             [NoResult EXCEPT !.status = "throw",
                              !.err = Error("", "Unknown operation")]

fromXDRObject(operation) ==
    fromBody(operation.tag, operation.attrs,
             [NoResult EXCEPT
                 !.status = "ok",
                 !.source = IF Truthy(operation.sourceAccount)
                            THEN accountIdtoAddress(operation.sourceAccount)
                            ELSE @])

----------------------------------------------------------------------------
(* account.js: an Account is [status, err, _accountId, sequence, baseFee], *)
(* sequence a BigNumber and baseFee what parseInt returned; status "throw" *)
(* stands for a constructor that raised err and made no Account.           *)

\* the digits of the whole part of a finite BigNumber
IntPart(x) ==
    IF x.e < 0 THEN <<"0">>
    ELSE IF x.e + 1 >= Len(x.c) THEN x.c \o Zeros(x.e + 1 - Len(x.c))
    ELSE Slice(x.c, 1, x.e + 1)

\* the digits after the decimal point of a finite BigNumber
FracPart(x) ==
    IF x.e < 0 THEN Zeros(0 - x.e - 1) \o x.c
    ELSE IF x.e + 1 >= Len(x.c) THEN <<>>
    ELSE Slice(x.c, x.e + 2, Len(x.c))

RECURSIVE IncDigits(_)
\* the digits of n + 1
IncDigits(d) ==
    IF d = <<>> THEN <<"1">>
    ELSE IF d[Len(d)] = "9" THEN IncDigits(Slice(d, 1, Len(d) - 1)) \o <<"0">>
    ELSE Slice(d, 1, Len(d) - 1) \o <<DigitChars[DigitVal(d[Len(d)]) + 2]>>

RECURSIVE DecDigits(_)
\* the digits of n - 1, for n >= 1
DecDigits(d) ==
    IF d[Len(d)] = "0" THEN DecDigits(Slice(d, 1, Len(d) - 1)) \o <<"9">>
    ELSE Slice(d, 1, Len(d) - 1) \o <<DigitChars[DigitVal(d[Len(d)])]>>

\* the digits of 1 - 0.f, f ending in a digit that is not 0
Complement(f) ==
    [i \in 1..Len(f) |->
        IF i = Len(f) THEN DigitChars[11 - DigitVal(f[i])]
        ELSE DigitChars[10 - DigitVal(f[i])]]

Parts(negative, int, frac) ==
    [ok |-> TRUE, neg |-> negative, int |-> int, frac |-> frac, exp |-> 0]

\* x + 1 from the whole and the fractional digits of x
addOneTo(x, int, frac) ==
    IF ~x.neg \/ isZero(x) THEN Normalise(Parts(FALSE, IncDigits(int), frac))
    ELSE IF AllDigits(int) /\ LeadingZeros(int) = Len(int)
    THEN Normalise(Parts(FALSE, <<"0">>, Complement(frac)))
    ELSE Normalise(Parts(LeadingZeros(DecDigits(int)) # Len(int) \/ frac # <<>>,
                         DecDigits(int), frac))

\* the sequence never moving
addOne_none(x) == x

\* x.add(1) of bignumber.js: exact
addOne(x) ==
    IF x.k # "fin" THEN x ELSE addOneTo(x, IntPart(x), FracPart(x))

\* parseInt(value): the integer a string starts with after blanks and a sign,
\* NaN when there is none; a number that is an integer is returned as it is
parseIntChars(neg, body) ==
    IF DigitRun(body, 1) = 0 THEN NaN
    ELSE Num((IF neg THEN 0 - 1 ELSE 1) * CharsToNat(Slice(body, 1, DigitRun(body, 1))))

parseIntSigned(s) ==
    IF s # <<>> /\ s[1] \in {"-", "+"} THEN parseIntChars(s[1] = "-", Tail(s))
    ELSE parseIntChars(FALSE, s)

parseInt(v) ==
    IF isString(v) THEN parseIntSigned(Slice(v.s, LeadingBlanks(v.s) + 1, Len(v.s)))
    ELSE IF v.t = "number" THEN v
    ELSE NaN

\* Number.prototype.toString() of an integer or NaN
NumberToString(v) ==
    IF v.t = "number"
    THEN Str((IF v.n < 0 THEN <<"-">> ELSE <<>>) \o NatToChars(IF v.n < 0 THEN 0 - v.n ELSE v.n))
    ELSE Str(NaNChars)

NoAccount ==
    [status |-> "none", err |-> NoError, _accountId |-> Undefined,
     sequence |-> BNNaN, baseFee |-> Undefined]

NoAccountThrown(err) == [NoAccount EXCEPT !.status = "throw", !.err = err]

AccountWith(accountId, sequence, baseFee) ==
    IF sequence.k = "throw"
    THEN NoAccountThrown(Error("", "new BigNumber() not a number"))
    ELSE [status |-> "ok", err |-> NoError, _accountId |-> accountId,
          sequence |-> sequence, baseFee |-> baseFee]

\* new Account(accountId, sequence, baseFee)
Account(accountId, sequence, baseFee) ==
    IF ~isValidEd25519PublicKey(accountId)
    THEN NoAccountThrown(Error("accountId", " is invalid"))
    ELSE IF ~isString(sequence)
    THEN NoAccountThrown(Error("sequence", " must be of type string"))
    ELSE AccountWith(accountId, BigNumber(sequence.s), parseInt(baseFee))

\* account.accountId()
accountId(a) == a._accountId

\* account.sequenceNumber()
sequenceNumber(a) == Str(toString(a.sequence))

\* account.baseFeeValue()
baseFeeValue(a) == NumberToString(a.baseFee)

\* an increment that is lost
\* the two steps of this.sequence = this.sequence.add(1): the right-hand
\* side is evaluated, then its value is assigned
incrementRead(a) == addOne(a.sequence)

\* the assignment left out
incrementWrite_none(a, sum) == a

incrementWrite(a, sum) == [a EXCEPT !.sequence = sum]

incrementSequenceNumber_lost(a) == a

\* account.incrementSequenceNumber(): the Account afterwards
incrementSequenceNumber(a) == [a EXCEPT !.sequence = addOne(@)]

----------------------------------------------------------------------------
(* Transaction assembly and signing.  transaction.js and                   *)
(* transaction_builder.js are exported by index.js and are not among the   *)
(* sources: build, seal, sign and addSignature follow section 4.4 of the   *)
(* specification.  A transaction is [state, source, sequenceNumber, fee,   *)
(* timeBounds, memo, operations, signatures, trail]; trail lists the       *)
(* states it has been in.                                                  *)

SequenceMisuse(msg) == [type |-> "SequenceMisuse", name |-> "", msg |-> msg]

NoTransaction ==
    [state |-> "none", source |-> Undefined, sequenceNumber |-> <<>>,
     fee |-> Undefined, timeBounds |-> Undefined, memo |-> Undefined,
     operations |-> <<>>, signatures |-> <<>>, trail |-> <<>>]

\* build that takes an empty list of operations
build_anyList(a, fee, operations) ==
    [ok |-> TRUE, err |-> NoError,
     tx |-> [state |-> "Building", source |-> accountId(a),
             sequenceNumber |-> toString(addOne(a.sequence)),
             fee |-> fee, timeBounds |-> Undefined, memo |-> Undefined,
             operations |-> operations, signatures |-> <<>>,
             trail |-> <<"Building">>],
     account |-> incrementSequenceNumber(a)]

\* build(account, fee, operations) without time bounds and memo:
\* [ok, err, tx, account], account the Account afterwards
build(a, fee, operations) ==
    IF operations = <<>>
    THEN [ok |-> FALSE, err |-> SequenceMisuse("no operations"),
          tx |-> NoTransaction, account |-> a]
    ELSE [ok |-> TRUE, err |-> NoError,
          tx |-> [state |-> "Building", source |-> accountId(a),
                  sequenceNumber |-> toString(addOne(a.sequence)),
                  fee |-> fee, timeBounds |-> Undefined, memo |-> Undefined,
                  operations |-> operations, signatures |-> <<>>,
                  trail |-> <<"Building">>],
          account |-> incrementSequenceNumber(a)]

\* the transaction in a further state
Moved(tx, state) == [tx EXCEPT !.state = state, !.trail = Append(@, state)]

\* seal(transaction): [ok, err, tx]
seal(tx) ==
    IF tx.state # "Building"
    THEN [ok |-> FALSE, err |-> SequenceMisuse("not Building"), tx |-> tx]
    ELSE IF tx.operations = <<>>
    THEN [ok |-> FALSE, err |-> SequenceMisuse("no operations"), tx |-> tx]
    ELSE [ok |-> TRUE, err |-> NoError, tx |-> Moved(tx, "Sealed")]

\* the sealed payload a signature is made over
Payload(tx) ==
    [source |-> tx.source, sequenceNumber |-> tx.sequenceNumber, fee |-> tx.fee,
     timeBounds |-> tx.timeBounds, memo |-> tx.memo, operations |-> tx.operations]

\* a hint taken from the front of the key
Hint_front(publicKey) == Slice(publicKey, 1, 4)

\* the last 4 bytes of the signer's public key
Hint(publicKey) == Slice(publicKey, Len(publicKey) - 3, Len(publicKey))

\* the transaction with (hint, signature) at the end of its signature list
Attached(tx, publicKey, signature) ==
    [(IF tx.state = "Sealed" THEN Moved(tx, "Signed") ELSE tx)
        EXCEPT !.signatures = Append(@, [hint |-> Hint(publicKey), signature |-> signature])]

\* the signature the crypto provider makes with the key pair of publicKey
Signature(publicKey, payload) == [by |-> publicKey, over |-> payload]

\* sign that takes a transaction in any state
sign_unsealed(tx, publicKey) ==
    [ok |-> TRUE, err |-> NoError,
     tx |-> Attached(tx, publicKey, Signature(publicKey, Payload(tx)))]

\* sign(transaction, keyPair): [ok, err, tx]
sign(tx, publicKey) ==
    IF tx.state \notin {"Sealed", "Signed"}
    THEN [ok |-> FALSE, err |-> SequenceMisuse("not Sealed"), tx |-> tx]
    ELSE [ok |-> TRUE, err |-> NoError,
          tx |-> Attached(tx, publicKey, Signature(publicKey, Payload(tx)))]

\* addSignature(transaction, publicKey, signatureBytes): [ok, err, tx]
addSignature(tx, publicKey, signature) ==
    IF tx.state \notin {"Sealed", "Signed"}
    THEN [ok |-> FALSE, err |-> SequenceMisuse("not Sealed"), tx |-> tx]
    ELSE [ok |-> TRUE, err |-> NoError, tx |-> Attached(tx, publicKey, signature)]

\* the arguments of a constructor that was not called, and of the last call on
\* a transaction: the operations given to build, the transaction a call is
\* made on (its place in txs) and the public key given to sign or addSignature
NoArgs ==
    [accountId |-> Undefined, sequence |-> Undefined, baseFee |-> Undefined,
     operations |-> <<>>, target |-> 0, publicKey |-> <<>>]

\* the state in which no Account was asked for
NoAccountYet ==
    /\ args = NoArgs
    /\ acct = NoAccount
    /\ returned = Undefined
    /\ call = "none"
    /\ increments = 0
    /\ txs = <<>>
    /\ outcome = "none"

\* the state in which no key was encoded, no price converted and no unsigned
\* integer checked
NoCodecCall == [call |-> "none"]

NoCodecCalls ==
    /\ strkey = NoCodecCall
    /\ price = NoCodecCall
    /\ uint = NoCodecCall

\* the state in which no builder runs beside another
NoThreads ==
    /\ threads = <<>>
    /\ mode = "none"

----------------------------------------------------------------------------
(* Inputs of the amount codec *)

MaxAmountLen == 3

AmountAlphabet == {"0", "1", "5", ".", "-", "e", "+", " "}

ShortStrings == UNION {[1..k -> AmountAlphabet] : k \in 0..MaxAmountLen}

NamedStrings ==
    { <<"1", "0">>,
      <<"1", "0", "0", "0">>,
      <<"0", ".", "1", "0">>,
      <<"0", ".", "1", "2", "3", "4", "5", "6", "7">>,
      <<"0", ".", "1", "2", "3", "4", "5", "6", "7", "8">>,
      <<"0", ".", "1", "2", "3", "4", "5", "6", "7", "0">>,
      <<"0", ".", "0", "0", "0", "0", "0", "0", "1">>,
      <<"0", ".", "0", "0", "0", "0", "0", "0", "0", "1">>,
      <<"1", "e", "-", "7">>,
      <<"1", "e", "-", "8">>,
      <<"9", "e", "1", "1">>,
      <<"1", "e", "1", "2">>,
      <<"1", "e", "3", "0">>,
      <<"9", "2", "2", "3", "3", "7", "2", "0", "3", "6", "8", "5", ".",
        "4", "7", "7", "5", "8", "0", "7">>,
      <<"9", "2", "2", "3", "3", "7", "2", "0", "3", "6", "8", "5", ".",
        "4", "7", "7", "5", "8", "0", "8">>,
      <<"9", "2", "2", "3", "3", "7", "2", "0", "3", "6", "8", "5", ".",
        "4", "7", "7", "5", "8", "0", "6">>,
      <<"9", "2", "2", "3", "3", "7", "2", "0", "3", "6", "8", "6">>,
      <<"9", "2", "2", "3", "3", "7", "2", "0", "3", "6", "8", "5">>,
      MAX_INT64,
      <<"-", "1", "0">>,
      <<"-", "1", "0", ".", "5">>,
      <<"t", "e", "s", "t">>,
      InfinityChars,
      <<"-">> \o InfinityChars,
      NaNChars,
      <<"N", "a", "n">> }

\* integers n, as [neg, d], whose quotient n / ONE is given as a decimal string
MaxScaled == 11

IntegerInputs ==
    {[neg |-> b, d |-> NatToChars(k)] : b \in BOOLEAN, k \in 0..MaxScaled}
        \cup {[neg |-> FALSE, d |-> NatToChars(k * ONE)] : k \in 1..MaxScaled}
        \cup { [neg |-> FALSE, d |-> NatToChars(12345678)],
               [neg |-> FALSE, d |-> MAX_INT64],
               [neg |-> TRUE, d |-> MAX_INT64],
               [neg |-> FALSE, d |-> Slice(MAX_INT64, 1, 18) \o <<"6">>],
               [neg |-> FALSE, d |-> Slice(MAX_INT64, 1, 18) \o <<"8">>],
               [neg |-> FALSE, d |-> Slice(MAX_INT64, 1, 18) \o <<"9">>],
               [neg |-> FALSE, d |-> Slice(MAX_INT64, 1, 17) \o <<"1", "0">>],
               [neg |-> FALSE, d |-> MAX_INT64 \o <<"0">>],
               [neg |-> FALSE, d |-> <<"1">> \o Zeros(19)] }

\* the plain decimal notation of n / ONE: the integer digits, then a point and
\* the fraction digits without trailing zeros when the fraction is not zero
DecimalOf(n) ==
    LET padded == IF Len(n.d) < 8 THEN Zeros(8 - Len(n.d)) \o n.d ELSE n.d
        int == Slice(padded, 1, Len(padded) - 7)
        frac == Slice(padded, Len(padded) - 6, Len(padded))
        kept == Slice(frac, 1, 7 - TrailingZeros(frac))
    IN  (IF n.neg /\ n.d # <<"0">> THEN <<"-">> ELSE <<>>)
            \o int \o (IF kept = <<>> THEN <<>> ELSE <<".">> \o kept)

AmountInputs ==
    {Str(s) : s \in ShortStrings \cup NamedStrings}
        \cup {Str(DecimalOf(n)) : n \in IntegerInputs}
        \cup {Num(100), NonInt(100), PosInfinity, NaN, Undefined, Null, EmptyObject}

MaxSmallLedger == 12

LedgerInputs ==
    {Hyper(FALSE, NatToChars(k)) : k \in 0..MaxSmallLedger}
        \cup {Hyper(FALSE, NatToChars(k * ONE)) : k \in 1..MaxSmallLedger}
        \cup { Hyper(FALSE, NatToChars(1234567)),
               Hyper(FALSE, NatToChars(1000000)),
               Hyper(FALSE, NatToChars(123456789)),
               Hyper(FALSE, <<"1", "0", "0", "0", "0", "0", "0", "0", "0", "0", "0">>),
               Hyper(FALSE, MAX_INT64),
               Hyper(FALSE, Slice(MAX_INT64, 1, 18) \o <<"6">>),
               Hyper(FALSE, Slice(MAX_INT64, 1, 18) \o <<"0">>),
               Hyper(TRUE, <<"1">>) }

----------------------------------------------------------------------------
(* The amount codec as a state machine: a caller holds a value and a ledger *)
(* integer and applies the three functions to them.                         *)

InitAmount ==
    /\ op = "init"
    /\ ret = Undefined
    /\ allowZero = FALSE
    /\ rendered = NoHyper
    /\ \/ value \in AmountInputs /\ ledger = NoHyper
       \/ value = Undefined /\ ledger \in LedgerInputs
    /\ builder = "none"
    /\ given = NoOpts
    /\ opts = NoOpts
    /\ built = NotBuilt
    /\ decoded = NoResult
    /\ NoAccountYet
    /\ NoCodecCalls
    /\ NoThreads

IsValidAmountCall ==
    \E az \in BOOLEAN :
        /\ ret' = Bool(isValidAmount(value, az))
        /\ allowZero' = az
        /\ op' = "isValidAmount"
        /\ UNCHANGED <<value, ledger, rendered>>
        /\ UNCHANGED <<opsVars, accountVars, txVars, codecVars, raceVars>>

ToXDRAmountCall ==
    /\ isString(value)
    /\ ledger' = _toXDRAmount(value)
    /\ ret' = IF ledger'.k = "throw" THEN Thrown("not a number") ELSE Undefined
    /\ op' = "_toXDRAmount"
    /\ UNCHANGED <<value, allowZero, rendered>>
    /\ UNCHANGED <<opsVars, accountVars, txVars, codecVars, raceVars>>

FromXDRAmountCall ==
    /\ ledger.k = "hyper"
    /\ value' = _fromXDRAmount(ledger)
    /\ rendered' = ledger
    /\ ret' = Undefined
    /\ op' = "_fromXDRAmount"
    /\ UNCHANGED <<allowZero, ledger>>
    /\ UNCHANGED <<opsVars, accountVars, txVars, codecVars, raceVars>>

NextAmount == IsValidAmountCall \/ ToXDRAmountCall \/ FromXDRAmountCall

SpecAmount == InitAmount /\ [][NextAmount]_vars

----------------------------------------------------------------------------
(* Inputs of the builders *)

Text(k, c) == Str([i \in 1..k |-> c])

\* the first test address with its last character changed
CorruptAddress == Str([AddressA.s EXCEPT ![Len(AddressA.s)] = "Y"])

AddressInputs ==
    { AddressA, AddressB, TruncatedAddress, CorruptAddress, SeedOfA, Str(<<>>),
      Undefined, Null }

SourceInputs == {Undefined, AddressB, TruncatedAddress, Str(<<>>), Null, Num(0)}

FewSources == {Undefined, AddressB, TruncatedAddress}

OpAmountInputs ==
    { Str(<<"1", "0">>), Str(<<"0">>), Str(<<"0", ".", "1", "0">>),
      Str(<<"1", "e", "1">>), Str(<<" ", "5">>), Str(<<"-", "1">>),
      Str(<<"0", ".", "0", "0", "0", "0", "0", "0", "1">>),
      Str(<<"0", ".", "0", "0", "0", "0", "0", "0", "1", "2">>),
      Str(<<"0", ".", "0", "0", "0", "0", "0", "0", "0", "1">>),
      Str(<<"9", "2", "2", "3", "3", "7", "2", "0", "3", "6", "8", "5", ".",
            "4", "7", "7", "5", "8", "0", "7">>),
      Str(<<"9", "2", "2", "3", "3", "7", "2", "0", "3", "6", "8", "5", ".",
            "4", "7", "7", "5", "8", "0", "8">>),
      Str(<<"t", "e", "s", "t">>), Str(<<>>), Num(20), Num(0), Undefined }

UIntInputs ==
    { Undefined, Null, EmptyObject, Bool(TRUE), NaN, PosInfinity,
      Num(0), Num(1), Num(4), Num(255), Num(256), Num(400), Num(0 - 1),
      NonInt(0), NonInt(255), NonInt(256),
      Str(<<>>), Str(<<"0">>), Str(<<"4">>), Str(<<"2", "5", "5">>),
      Str(<<"2", "5", "6">>), Str(<<"4", "a", "b", "c">>),
      Str(<<"3", "0", "0", "x">>), Str(<<"1", ".", "5">>), Str(<<"2", ".", "0">>),
      Str(<<"-", "1">>), Str(<<" ", "7">>), Str(<<"1", "e", "2">>),
      Str(<<"1", "e", "3">>), Str(<<"t", "e", "s", "t">>), Str(InfinityChars) }

\* every combination of the flag constants, as a number and as its decimal text
FlagInputs ==
    {Num(OrAll(names)) : names \in SUBSET FlagNames}
        \cup {Str(NatToChars(OrAll(names))) : names \in SUBSET FlagNames}

FewFlags == {Undefined, Num(BitOr(AuthRequiredFlag, AuthImmutableFlag)), Str(<<"4">>)}

FewUInts == {Undefined, Num(1), Num(400), Str(<<"4">>), EmptyObject}

AccountTypeInputs == {Undefined, Num(0), Num(1), Num(9), Str(<<"0">>)}

Hash == [i \in 1..HashLength |-> (7 * i) % 256]

HashHex == [i \in 1..(2 * HashLength) |-> HexDigits[((3 * i) % 16) + 1]]

\* a signer with the second test address as its key
SignerB ==
    [NoSigner EXCEPT !.present = TRUE, !.ed25519PublicKey = AddressB,
                     !.weight = Num(1), !.signerType = Num(0)]

KeylessSigner == [SignerB EXCEPT !.ed25519PublicKey = Undefined]

SignerInputs ==
    { NoSigner, SignerB, KeylessSigner,
      [SignerB EXCEPT !.ed25519PublicKey = TruncatedAddress],
      [SignerB EXCEPT !.sha256Hash = Buf(Hash)],
      [SignerB EXCEPT !.preAuthTx = Str(HashHex)],
      [SignerB EXCEPT !.ed25519PublicKey = Str(<<>>), !.sha256Hash = Str(HashHex)],
      [KeylessSigner EXCEPT !.preAuthTx = Buf(Hash)],
      [KeylessSigner EXCEPT !.preAuthTx = Str(HashHex)],
      [KeylessSigner EXCEPT !.preAuthTx = Str(<<"a", "b">>)],
      [KeylessSigner EXCEPT !.preAuthTx = Buf(<<1, 2, 3>>)],
      [KeylessSigner EXCEPT !.preAuthTx = Num(5)],
      [KeylessSigner EXCEPT !.sha256Hash = Buf(Hash)],
      [KeylessSigner EXCEPT !.sha256Hash = Str(HashHex)],
      [KeylessSigner EXCEPT !.sha256Hash = Str(<<"x", "y">>)],
      [KeylessSigner EXCEPT !.sha256Hash = Buf(Hash), !.preAuthTx = Str(HashHex)],
      [SignerB EXCEPT !.sha256Hash = Buf(Hash), !.preAuthTx = Buf(Hash)] }
        \cup {[SignerB EXCEPT !.weight = w] : w \in UIntInputs}
        \cup {[SignerB EXCEPT !.signerType = ty] :
                 ty \in {Undefined, Num(2), Num(9), Str(<<"0">>)}}

HomeDomainInputs ==
    {Undefined, Str(<<"w", "w", "w">>), Str(<<>>), Num(5), EmptyObject}

NameInputs ==
    { Str(<<"n", "a", "m", "e">>), Str(<<>>), Text(MaxDataNameLength, "n"),
      Text(MaxDataNameLength + 1, "n"), Undefined, Num(5),
      Text(MaxDataNameLength \div 2, EAcute),
      Text(MaxDataNameLength \div 2 + 1, EAcute) }

ValueInputs ==
    { Str(<<"v", "a", "l", "u", "e">>), Str(<<>>), Buf(<<1, 2, 3>>), Null, Undefined,
      Num(5), Text(MaxDataValueLength, "v"), Text(MaxDataValueLength + 1, "v"),
      Buf([i \in 1..(MaxDataValueLength + 1) |-> i]),
      Buf([i \in 1..MaxDataValueLength |-> i]),
      Text(MaxDataValueLength \div 2, EAcute),
      Text(MaxDataValueLength \div 2 + 1, EAcute) }

BaseFeeInputs == {Undefined, Num(100), Num(0 - 1), Str(<<"1", "0", "0">>), Null}

SetOptionsFields ==
    { "inflationDest", "clearFlags", "setFlags", "masterWeight", "lowThreshold",
      "medThreshold", "highThreshold", "homeDomain", "signer", "source" }

\* the values a field of setOptions is given
FieldInputs(f) ==
    CASE f = "inflationDest" -> AddressInputs
      [] f = "homeDomain" -> HomeDomainInputs
      [] f = "signer" -> SignerInputs
      [] f = "source" -> SourceInputs
      [] OTHER -> UIntInputs

\* the values a second field is given next to it
FewInputs(f) ==
    CASE f = "inflationDest" -> {Undefined, AddressA, TruncatedAddress}
      [] f = "homeDomain" -> {Undefined, Str(<<"w", "w", "w">>), Num(5)}
      [] f = "signer" ->
             {NoSigner, SignerB, [SignerB EXCEPT !.weight = Num(256)],
              [KeylessSigner EXCEPT !.sha256Hash = Str(HashHex)]}
      [] f = "source" -> FewSources
      [] OTHER -> FewUInts

Builders ==
    { "createAccount", "emission", "settlement", "payment", "setOptions",
      "accountMerge", "manageData", "spendFee", "setFee", "restrictAccount" }

\* the options a builder is called with
OptsInputs(b) ==
    CASE b = "createAccount" ->
             {[NoOpts EXCEPT !.destination = d, !.startingBalance = a,
                             !.accountType = ty, !.source = s] :
                 d \in AddressInputs, a \in OpAmountInputs,
                 ty \in AccountTypeInputs, s \in FewSources}
      [] b \in {"emission", "payment", "spendFee"} ->
             {[NoOpts EXCEPT !.destination = d, !.amount = a, !.source = s] :
                 d \in AddressInputs, a \in OpAmountInputs, s \in SourceInputs}
      [] b = "settlement" ->
             {[NoOpts EXCEPT !.amount = a, !.source = s] :
                 a \in OpAmountInputs, s \in SourceInputs}
      [] b = "accountMerge" ->
             {[NoOpts EXCEPT !.destination = d, !.source = s] :
                 d \in AddressInputs, s \in SourceInputs}
      [] b = "manageData" ->
             {[NoOpts EXCEPT !.name = n, !.value = v, !.source = s] :
                 n \in NameInputs, v \in ValueInputs, s \in FewSources}
      [] b = "setFee" ->
             {[NoOpts EXCEPT !.baseFee = f, !.source = s] :
                 f \in BaseFeeInputs, s \in SourceInputs}
      [] b = "restrictAccount" ->
             {[NoOpts EXCEPT !.account = a, !.clearFlags = f[1], !.setFlags = f[2],
                             !.source = s] :
                 a \in {AddressA, TruncatedAddress, SeedOfA, Undefined},
                 f \in (UIntInputs \X FewUInts) \cup (FewUInts \X UIntInputs),
                 s \in FewSources}
      [] b = "fromXDR" -> {NoOpts}
      [] b = "setOptions" ->
             UNION {{[[NoOpts EXCEPT ![p[1]] = v[1]] EXCEPT ![p[2]] = v[2]] :
                        v \in FieldInputs(p[1]) \X FewInputs(p[2])} :
                    p \in SetOptionsFields \X SetOptionsFields}
                 \cup {[NoOpts EXCEPT !.setFlags = f[1], !.clearFlags = f[2]] :
                           f \in (FlagInputs \X FewFlags) \cup (FewFlags \X FlagInputs)}

----------------------------------------------------------------------------
(* The builders as a state machine: a caller holds the options, calls one   *)
(* builder with them, and reads the operation back with fromXDRObject.      *)
(* given keeps the options as they were before the call.                    *)

\* the bodies fromXDRObject has no case for: the operations of the class
\* comment that this Operation does not build
OtherTags ==
    { "pathPayment", "manageOffer", "createPassiveOffer", "changeTrust",
      "allowTrust", "inflation" }

\* the sources of an operation that was read from XDR
WireSources == {Undefined, AccountId(fromPublicKey(AddressB).raw)}

InitOps ==
    /\ builder \in Builders \cup {"fromXDR"}
    /\ opts \in OptsInputs(builder)
    /\ given = opts
    /\ built = NotBuilt
    /\ decoded = NoResult
    /\ value = Undefined
    /\ allowZero = FALSE
    /\ ledger = NoHyper
    /\ rendered = NoHyper
    /\ ret = Undefined
    /\ op = "init"
    /\ NoAccountYet
    /\ NoCodecCalls
    /\ NoThreads

CreateAccount ==
    /\ builder = "createAccount"
    /\ built.status = "none"
    /\ built' = createAccount(opts)
    /\ UNCHANGED <<builder, given, opts, decoded>>
    /\ UNCHANGED <<amountVars, accountVars, txVars, codecVars, raceVars>>

Emission ==
    /\ builder = "emission"
    /\ built.status = "none"
    /\ built' = emission(opts)
    /\ UNCHANGED <<builder, given, opts, decoded>>
    /\ UNCHANGED <<amountVars, accountVars, txVars, codecVars, raceVars>>

Settlement ==
    /\ builder = "settlement"
    /\ built.status = "none"
    /\ built' = settlement(opts)
    /\ UNCHANGED <<builder, given, opts, decoded>>
    /\ UNCHANGED <<amountVars, accountVars, txVars, codecVars, raceVars>>

Payment ==
    /\ builder = "payment"
    /\ built.status = "none"
    /\ built' = payment(opts)
    /\ UNCHANGED <<builder, given, opts, decoded>>
    /\ UNCHANGED <<amountVars, accountVars, txVars, codecVars, raceVars>>

SetOptions ==
    /\ builder = "setOptions"
    /\ built.status = "none"
    /\ built' = setOptions(opts)
    /\ opts' = setOptionsOpts(opts)
    /\ UNCHANGED <<builder, given, decoded>>
    /\ UNCHANGED <<amountVars, accountVars, txVars, codecVars, raceVars>>

AccountMerge ==
    /\ builder = "accountMerge"
    /\ built.status = "none"
    /\ built' = accountMerge(opts)
    /\ UNCHANGED <<builder, given, opts, decoded>>
    /\ UNCHANGED <<amountVars, accountVars, txVars, codecVars, raceVars>>

ManageData ==
    /\ builder = "manageData"
    /\ built.status = "none"
    /\ built' = manageData(opts)
    /\ UNCHANGED <<builder, given, opts, decoded>>
    /\ UNCHANGED <<amountVars, accountVars, txVars, codecVars, raceVars>>

SpendFee ==
    /\ builder = "spendFee"
    /\ built.status = "none"
    /\ built' = spendFee(opts)
    /\ UNCHANGED <<builder, given, opts, decoded>>
    /\ UNCHANGED <<amountVars, accountVars, txVars, codecVars, raceVars>>

SetFee ==
    /\ builder = "setFee"
    /\ built.status = "none"
    /\ built' = setFee(opts)
    /\ UNCHANGED <<builder, given, opts, decoded>>
    /\ UNCHANGED <<amountVars, accountVars, txVars, codecVars, raceVars>>

RestrictAccount ==
    /\ builder = "restrictAccount"
    /\ built.status = "none"
    /\ built' = restrictAccount(opts)
    /\ UNCHANGED <<builder, given, opts, decoded>>
    /\ UNCHANGED <<amountVars, accountVars, txVars, codecVars, raceVars>>

\* an operation that no builder of Operation made reaches the caller
FromXDR ==
    /\ builder = "fromXDR"
    /\ built.status = "none"
    /\ \E tag \in OtherTags, src \in WireSources : built' = Operation(tag, NoAttrs, src)
    /\ UNCHANGED <<builder, given, opts, decoded>>
    /\ UNCHANGED <<amountVars, accountVars, txVars, codecVars, raceVars>>

FromXDRObject ==
    /\ built.status = "ok"
    /\ decoded.status = "none"
    /\ decoded' = fromXDRObject(built)
    /\ UNCHANGED <<builder, given, opts, built>>
    /\ UNCHANGED <<amountVars, accountVars, txVars, codecVars, raceVars>>

NextOps ==
    \/ CreateAccount
    \/ Emission
    \/ Settlement
    \/ Payment
    \/ SetOptions
    \/ AccountMerge
    \/ ManageData
    \/ SpendFee
    \/ SetFee
    \/ RestrictAccount
    \/ FromXDR
    \/ FromXDRObject

SpecOps == InitOps /\ [][NextOps]_vars

----------------------------------------------------------------------------
(* Account as a state machine: a caller constructs an Account from three   *)
(* arguments and calls its methods in any order.                           *)

MaxSequenceLen == 2

\* the largest unsigned 64-bit integer
MAX_UINT64 ==
    <<"1", "8", "4", "4", "6", "7", "4", "4", "0", "7", "3", "7", "0", "9", "5", "5",
      "1", "6", "1", "5">>

SequenceAlphabet == {"0", "1", "9", ".", "-", "e"}

SequenceTexts ==
    UNION {[1..k -> SequenceAlphabet] : k \in 0..MaxSequenceLen}
        \cup { NatToChars(99), NatToChars(999), NatToChars(999999999),
               <<"4", "2", "9", "4", "9", "6", "7", "2", "9", "5">>,
               <<"9", "9", "9", "9", "9", "9", "9", "9", "9", "9">>,
               Slice(MAX_INT64, 1, 18) \o <<"6">>, MAX_UINT64, [i \in 1..21 |-> "9"],
               <<"0", "0", "7">>, <<"1", "e", "3">>, <<" ", "5">>, <<"+", "5">>,
               <<"0", ".", "5">>, <<"-", "0", ".", "5">>, <<"-", "1", ".", "5">>,
               <<"a", "b", "c">>, NaNChars, InfinityChars }

SequenceInputs ==
    {Str(s) : s \in SequenceTexts} \cup {Num(5), Undefined, Null}

AccountBaseFeeInputs == {Undefined, Num(100), Str(NatToChars(100)), Str(<<"1", "2", "a", "b", "c">>)}

AccountArgs ==
    [accountId : AddressInputs, sequence : SequenceInputs, baseFee : AccountBaseFeeInputs,
     operations : {<<>>}, target : {0}, publicKey : {<<>>}]

\* how many times the model increments one Account
MaxIncrements == 3

InitAccount ==
    /\ args \in AccountArgs
    /\ acct = NoAccount
    /\ returned = Undefined
    /\ call = "none"
    /\ increments = 0
    /\ txs = <<>>
    /\ outcome = "none"
    /\ value = Undefined
    /\ allowZero = FALSE
    /\ ledger = NoHyper
    /\ rendered = NoHyper
    /\ ret = Undefined
    /\ op = "init"
    /\ builder = "none"
    /\ given = NoOpts
    /\ opts = NoOpts
    /\ built = NotBuilt
    /\ decoded = NoResult
    /\ NoCodecCalls
    /\ NoThreads

New ==
    /\ acct.status = "none"
    /\ acct' = Account(args.accountId, args.sequence, args.baseFee)
    /\ call' = "new"
    /\ UNCHANGED <<args, returned, increments>>
    /\ UNCHANGED <<amountVars, opsVars, txVars, codecVars, raceVars>>

AccountIdCall ==
    /\ acct.status = "ok"
    /\ returned' = accountId(acct)
    /\ call' = "accountId"
    /\ UNCHANGED <<args, acct, increments>>
    /\ UNCHANGED <<amountVars, opsVars, txVars, codecVars, raceVars>>

SequenceNumberCall ==
    /\ acct.status = "ok"
    /\ returned' = sequenceNumber(acct)
    /\ call' = "sequenceNumber"
    /\ UNCHANGED <<args, acct, increments>>
    /\ UNCHANGED <<amountVars, opsVars, txVars, codecVars, raceVars>>

BaseFeeValueCall ==
    /\ acct.status = "ok"
    /\ returned' = baseFeeValue(acct)
    /\ call' = "baseFeeValue"
    /\ UNCHANGED <<args, acct, increments>>
    /\ UNCHANGED <<amountVars, opsVars, txVars, codecVars, raceVars>>

IncrementSequenceNumber ==
    /\ acct.status = "ok"
    /\ increments < MaxIncrements
    /\ acct' = incrementSequenceNumber(acct)
    /\ increments' = increments + 1
    /\ returned' = Undefined
    /\ call' = "incrementSequenceNumber"
    /\ UNCHANGED args
    /\ UNCHANGED <<amountVars, opsVars, txVars, codecVars, raceVars>>

NextAccount ==
    \/ New
    \/ AccountIdCall
    \/ SequenceNumberCall
    \/ BaseFeeValueCall
    \/ IncrementSequenceNumber

SpecAccount == InitAccount /\ [][NextAccount]_vars

----------------------------------------------------------------------------
(* Building, sealing and signing transactions against one Account *)

\* how many transactions the model builds against the Account
MaxBuilds == 2

\* how many signatures the model attaches in all
MaxSignatures == 2

TxSequenceInputs ==
    {Str(s) : s \in { NatToChars(98),
                      Slice(MAX_INT64, 1, 18) \o <<"4">> }}

\* the fee every build is given
Fee == Num(100)

OperationLists == {<<>>, <<"setFee", "payment">>, <<"payment", "setFee">>}

SignerKeys == KnownKeys

\* the signatures attached so far, over all transactions
RECURSIVE SignatureCount(_)
SignatureCount(list) ==
    IF list = <<>> THEN 0
    ELSE Len(list[1].signatures) + SignatureCount(Tail(list))

InitTx ==
    /\ args \in [accountId : {AddressA}, sequence : TxSequenceInputs, baseFee : {Num(100)},
                  operations : {<<>>}, target : {0}, publicKey : {<<>>}]
    /\ acct = Account(args.accountId, args.sequence, args.baseFee)
    /\ returned = Undefined
    /\ call = "new"
    /\ increments = 0
    /\ txs = <<>>
    /\ outcome = "none"
    /\ value = Undefined
    /\ allowZero = FALSE
    /\ ledger = NoHyper
    /\ rendered = NoHyper
    /\ ret = Undefined
    /\ op = "init"
    /\ builder = "none"
    /\ given = NoOpts
    /\ opts = NoOpts
    /\ built = NotBuilt
    /\ decoded = NoResult
    /\ NoCodecCalls
    /\ NoThreads

\* the arguments of the last call
Given(operations, target, publicKey) ==
    [args EXCEPT !.operations = operations, !.target = target, !.publicKey = publicKey]

\* the outcome of a call on transaction i
Took(i, result) ==
    /\ txs' = [txs EXCEPT ![i] = result.tx]
    /\ outcome' = IF result.ok THEN "ok" ELSE "throw"

BuildWith(result) ==
    /\ txs' = IF result.ok THEN Append(txs, result.tx) ELSE txs
    /\ acct' = result.account
    /\ increments' = IF result.ok THEN increments + 1 ELSE increments
    /\ outcome' = IF result.ok THEN "ok" ELSE "throw"

BuildTx ==
    /\ Len(txs) < MaxBuilds
    /\ \E operations \in OperationLists :
           /\ BuildWith(build(acct, Fee, operations))
           /\ args' = Given(operations, 0, <<>>)
    /\ call' = "build"
    /\ returned' = Undefined
    /\ UNCHANGED <<amountVars, opsVars, codecVars, raceVars>>

Seal ==
    /\ \E i \in 1..Len(txs) : Took(i, seal(txs[i])) /\ args' = Given(<<>>, i, <<>>)
    /\ call' = "seal"
    /\ returned' = Undefined
    /\ UNCHANGED <<acct, increments>>
    /\ UNCHANGED <<amountVars, opsVars, codecVars, raceVars>>

Sign ==
    /\ SignatureCount(txs) < MaxSignatures
    /\ \E i \in 1..Len(txs), key \in SignerKeys :
           Took(i, sign(txs[i], key)) /\ args' = Given(<<>>, i, key)
    /\ call' = "sign"
    /\ returned' = Undefined
    /\ UNCHANGED <<acct, increments>>
    /\ UNCHANGED <<amountVars, opsVars, codecVars, raceVars>>

AddSignature ==
    /\ SignatureCount(txs) < MaxSignatures
    /\ \E i \in 1..Len(txs), key \in SignerKeys, signer \in SignerKeys :
           /\ Took(i, addSignature(txs[i], key, Signature(signer, Payload(txs[i]))))
           /\ args' = Given(<<>>, i, key)
    /\ call' = "addSignature"
    /\ returned' = Undefined
    /\ UNCHANGED <<acct, increments>>
    /\ UNCHANGED <<amountVars, opsVars, codecVars, raceVars>>

TxSequenceNumber ==
    /\ returned' = sequenceNumber(acct)
    /\ call' = "sequenceNumber"
    /\ args' = Given(<<>>, 0, <<>>)
    /\ UNCHANGED <<acct, increments>>
    /\ UNCHANGED <<amountVars, opsVars, txVars, codecVars, raceVars>>

NextTx ==
    \/ BuildTx
    \/ Seal
    \/ Sign
    \/ AddSignature
    \/ TxSequenceNumber

SpecTx == InitTx /\ [][NextTx]_vars

----------------------------------------------------------------------------
(* StrKey as a state machine: a caller encodes a raw key as one kind, or    *)
(* holds a text from elsewhere, and decodes or validates the text as any    *)
(* kind.                                                                    *)

Kinds == {"ed25519PublicKey", "ed25519SecretSeed", "preAuthTx", "sha256Hash"}

\* raw keys of the required size, and one of half the size
KeyPayloads ==
    KnownKeys \cup { [i \in 1..RawKeyLength |-> 0], [i \in 1..RawKeyLength |-> 255], Hash,
                     [i \in 1..(RawKeyLength \div 2) |-> 1] }

\* texts that no encoding of the model produced
StrKeyTexts ==
    {AddressA, TruncatedAddress, CorruptAddress, SeedOfA, Str(<<>>), Str(<<"g", "1">>)}

NoDecoding == [ok |-> FALSE, err |-> "none", raw |-> <<>>]

\* the state in which no builder, codec or Account was asked for
NoBuilderCalls ==
    /\ value = Undefined
    /\ allowZero = FALSE
    /\ ledger = NoHyper
    /\ rendered = NoHyper
    /\ ret = Undefined
    /\ op = "init"
    /\ builder = "none"
    /\ given = NoOpts
    /\ opts = NoOpts
    /\ built = NotBuilt
    /\ decoded = NoResult
    /\ NoAccountYet

InitStrKey ==
    /\ strkey \in [call : {"init"}, kind : Kinds, raw : KeyPayloads, text : {Undefined},
                    as : {"none"}, result : {NoDecoding}, valid : {FALSE}]
               \cup [call : {"init"}, kind : {"none"}, raw : {<<>>}, text : StrKeyTexts,
                     as : {"none"}, result : {NoDecoding}, valid : {FALSE}]
    /\ price = NoCodecCall
    /\ uint = NoCodecCall
    /\ NoThreads
    /\ NoBuilderCalls

EncodeCheck ==
    /\ strkey.call = "init"
    /\ strkey.kind # "none"
    /\ strkey' = [strkey EXCEPT !.call = "encodeCheck",
                                !.text = Str(encodeCheck(strkey.kind, strkey.raw))]
    /\ UNCHANGED <<price, uint>>
    /\ UNCHANGED <<amountVars, opsVars, accountVars, txVars, raceVars>>

DecodeCheck ==
    /\ strkey.text # Undefined
    /\ \E kind \in Kinds :
           strkey' = [strkey EXCEPT !.call = "decodeCheck", !.as = kind,
                                    !.result = decodeCheck(kind, strkey.text),
                                    !.valid = FALSE]
    /\ UNCHANGED <<price, uint>>
    /\ UNCHANGED <<amountVars, opsVars, accountVars, txVars, raceVars>>

IsValid ==
    /\ strkey.text # Undefined
    /\ \E kind \in Kinds :
           strkey' = [strkey EXCEPT !.call = "isValid", !.as = kind,
                                    !.result = NoDecoding,
                                    !.valid = isValid(kind, strkey.text)]
    /\ UNCHANGED <<price, uint>>
    /\ UNCHANGED <<amountVars, opsVars, accountVars, txVars, raceVars>>

NextStrKey ==
    \/ EncodeCheck
    \/ DecodeCheck
    \/ IsValid

SpecStrKey == InitStrKey /\ [][NextStrKey]_vars

----------------------------------------------------------------------------
(* Prices: a price is given as an object {n, d} of two numbers or as a      *)
(* decimal string; a ledger price is a pair of integers.                    *)

\* a price argument: t is "pair" or "decimal"
PricePair(n, d) == [t |-> "pair", n |-> n, d |-> d, s |-> <<>>]

PriceDecimal(chars) == [t |-> "decimal", n |-> 0, d |-> 0, s |-> chars]

\* what String(price) is, the text new BigNumber reads
PriceText(p) ==
    IF p.t = "pair"
    THEN <<"[", "o", "b", "j", "e", "c", "t", " ", "O", "b", "j", "e", "c", "t", "]">>
    ELSE p.s

RECURSIVE Pow10(_)
Pow10(k) == IF k = 0 THEN 1 ELSE 10 * Pow10(k - 1)

\* a finite BigNumber as a fraction of two integers, the second one positive
FractionOfBigNumber(x) ==
    LET places == Len(x.c) - 1 - x.e
        digits == CharsToNat(x.c)
        top == IF places < 0 THEN digits * Pow10(0 - places) ELSE digits
    IN  [p |-> IF x.neg THEN 0 - top ELSE top,
         q |-> IF places < 0 THEN 1 ELSE Pow10(places)]

\* the largest signed 32-bit integer
MAX_INT == 2147483647

\* the continued-fraction expansion of p / q: (h1, k1) and (h2, k2) are the
\* last two convergents; it stops before a term leaves the 32-bit range and
\* when nothing is left of the number
RECURSIVE Convergent(_, _, _, _, _, _)
Convergent(p, q, h1, k1, h2, k2) ==
    LET a == p \div q
        h == a * h1 + h2
        k == a * k1 + k2
    IN  IF a > MAX_INT \/ h > MAX_INT \/ k > MAX_INT THEN [n |-> h1, d |-> k1]
        ELSE IF p - a * q = 0 THEN [n |-> h, d |-> k]
        ELSE Convergent(q, p - a * q, h, k, h1, k1)

\* best_r(number): [ok, n, d], the best approximation of a finite number by
\* two 32-bit integers; there is none when a term would be zero
best_r(x) ==
    LET f == FractionOfBigNumber(x)
        r == Convergent(f.p, f.q, 1, 0, 0, 1)
    IN  IF r.n = 0 \/ r.d = 0 THEN [ok |-> FALSE, n |-> 0, d |-> 0]
        ELSE [ok |-> TRUE, n |-> r.n, d |-> r.d]

NoPrice == [ok |-> FALSE, err |-> NoError, n |-> 0, d |-> 0]

PriceThrow(err) == [NoPrice EXCEPT !.err = err]

\* the last check of _toXDRPrice left out
positiveCheck_none(n, d) == [ok |-> TRUE, err |-> NoError, n |-> n, d |-> d]

\* if (xdrObject.n() < 0 || xdrObject.d() < 0) throw, else return xdrObject
positiveCheck(n, d) ==
    IF n < 0 \/ d < 0 THEN PriceThrow(Error("price", " must be positive"))
    ELSE [ok |-> TRUE, err |-> NoError, n |-> n, d |-> d]

\* the else branch of _toXDRPrice on the BigNumber read and its approximation
approximated(x, approx) ==
    IF x.k = "throw" THEN PriceThrow(Error("BigNumber", " not a number"))
    ELSE IF ~approx.ok THEN PriceThrow(Error("", "no approximation"))
    ELSE positiveCheck(parseInt(Num(approx.n)).n, parseInt(Num(approx.d)).n)

\* Operation._toXDRPrice(price): [ok, err, n, d]
_toXDRPrice(p) ==
    IF p.t = "pair" /\ Truthy(Num(p.n)) /\ Truthy(Num(p.d))
    THEN positiveCheck(p.n, p.d)
    ELSE approximated(BigNumber(PriceText(p)),
                      IF BigNumber(PriceText(p)).k = "fin"
                      THEN best_r(BigNumber(PriceText(p)))
                      ELSE [ok |-> FALSE, n |-> 0, d |-> 0])

\* the largest term of the pairs given
MaxPriceTerm == 3

PriceInputs ==
    { PricePair(n, d) : n \in (0 - MaxPriceTerm)..MaxPriceTerm,
                        d \in (0 - MaxPriceTerm)..MaxPriceTerm }
    \cup { PriceDecimal(chars) :
               chars \in { <<"0", ".", "5">>, <<"0">>, <<"-", "0", ".", "5">>,
                           <<"1", ".", "5">>, <<"2">>, <<"0", ".", "2", "5">>,
                           <<"-", "2">>, <<"3", ".", "1", "4">>, <<"0", ".", "3", "3", "3">>,
                           <<"1", "0">>, <<"0", ".", "0">>, <<"-", "0">>, <<"1", "e", "-", "2">>,
                           <<"1", "2", "3", "4", "5", ".", "6", "7", "8", "9">>,
                           <<"a", "b", "c">>, <<>> } }

InitPrice ==
    /\ price \in [call : {"init"}, given : PriceInputs, result : {NoPrice}]
    /\ strkey = NoCodecCall
    /\ uint = NoCodecCall
    /\ NoThreads
    /\ NoBuilderCalls

ToXDRPrice ==
    /\ price.call = "init"
    /\ price' = [price EXCEPT !.call = "_toXDRPrice", !.result = _toXDRPrice(price.given)]
    /\ UNCHANGED <<strkey, uint>>
    /\ UNCHANGED <<amountVars, opsVars, accountVars, txVars, raceVars>>

NextPrice == ToXDRPrice

SpecPrice == InitPrice /\ [][NextPrice]_vars

----------------------------------------------------------------------------
(* The unsigned-integer check as a state machine: a caller gives it a value *)
(* and, or not, a function to validate the number with.                     *)

CheckedInputs ==
    UIntInputs \cup
    { EmptyArray, Num(8), Num(10), Num(12), NonInt(0 - 11),
      Str(<<"8">>), Str(<<"1", "0">>), Str(<<"1", "2">>), Str(<<"0", ".", "5">>),
      Str(<<"-", "1", "0">>), Str(<<"-", "1", "0", ".", "5">>), Str(<<"N", "a", "n">>),
      Str(<<"1", "0", "a", "b", "c">>), Str(<<"4", " ", "f", "l", "a", "g", "s">>) }

IsValidFunctions == {"absent", "lessThanTen", "weightCheckFunction"}

NoChecked == [ok |-> FALSE, val |-> Undefined, err |-> NoError]

InitUInt ==
    /\ uint \in [call : {"init"}, name : {"setFlags"}, value : CheckedInputs,
                  isValidFunction : IsValidFunctions, result : {NoChecked}]
    /\ strkey = NoCodecCall
    /\ price = NoCodecCall
    /\ NoThreads
    /\ NoBuilderCalls

CheckUnsignedIntValue ==
    /\ uint.call = "init"
    /\ uint' = [uint EXCEPT
                    !.call = "_checkUnsignedIntValue",
                    !.result = _checkUnsignedIntValueWith(uint.name, uint.value,
                                                          uint.isValidFunction)]
    /\ UNCHANGED <<strkey, price>>
    /\ UNCHANGED <<amountVars, opsVars, accountVars, txVars, raceVars>>

NextUInt == CheckUnsignedIntValue

SpecUInt == InitUInt /\ [][NextUInt]_vars

----------------------------------------------------------------------------
(* Builders side by side on one Account.  A builder captures the sequence   *)
(* number of its transaction, the Account's plus one, and increments the    *)
(* Account; the increment reads the sequence and then writes it.  Either    *)
(* the steps of the builders interleave, or each build is one step.         *)

\* the number of builders
NumBuilders == 3

\* the sequence number a builder takes for its transaction
captureSequence(a) == toString(addOne(a.sequence))

IdleBuilder == [pc |-> "idle", sum |-> BNNaN, captured |-> <<>>]

InitRace ==
    /\ mode \in {"atomic", "interleaved"}
    /\ threads = [i \in 1..NumBuilders |-> IdleBuilder]
    /\ args \in [accountId : {AddressA}, sequence : TxSequenceInputs, baseFee : {Num(100)},
                  operations : {<<>>}, target : {0}, publicKey : {<<>>}]
    /\ acct = Account(args.accountId, args.sequence, args.baseFee)
    /\ returned = Undefined
    /\ call = "new"
    /\ increments = 0
    /\ txs = <<>>
    /\ outcome = "none"
    /\ value = Undefined
    /\ allowZero = FALSE
    /\ ledger = NoHyper
    /\ rendered = NoHyper
    /\ ret = Undefined
    /\ op = "init"
    /\ builder = "none"
    /\ given = NoOpts
    /\ opts = NoOpts
    /\ built = NotBuilt
    /\ decoded = NoResult
    /\ NoCodecCalls

\* builder i takes its sequence number
Capture ==
    /\ mode = "interleaved"
    /\ \E i \in 1..NumBuilders :
           /\ threads[i].pc = "idle"
           /\ threads' = [threads EXCEPT ![i].pc = "captured",
                                         ![i].captured = captureSequence(acct)]
    /\ UNCHANGED <<mode, args, acct, returned, call, increments>>
    /\ UNCHANGED <<amountVars, opsVars, txVars, codecVars>>

\* builder i evaluates this.sequence.add(1)
ReadSequence ==
    /\ mode = "interleaved"
    /\ \E i \in 1..NumBuilders :
           /\ threads[i].pc = "captured"
           /\ threads' = [threads EXCEPT ![i].pc = "read", ![i].sum = incrementRead(acct)]
    /\ UNCHANGED <<mode, args, acct, returned, call, increments>>
    /\ UNCHANGED <<amountVars, opsVars, txVars, codecVars>>

\* builder i assigns what it evaluated
WriteSequence ==
    /\ mode = "interleaved"
    /\ \E i \in 1..NumBuilders :
           /\ threads[i].pc = "read"
           /\ acct' = incrementWrite(acct, threads[i].sum)
           /\ threads' = [threads EXCEPT ![i].pc = "done"]
    /\ increments' = increments + 1
    /\ UNCHANGED <<mode, args, returned, call>>
    /\ UNCHANGED <<amountVars, opsVars, txVars, codecVars>>

\* builder i captures and increments in one step
BuildAtomic ==
    /\ mode = "atomic"
    /\ \E i \in 1..NumBuilders :
           /\ threads[i].pc = "idle"
           /\ acct' = incrementWrite(acct, incrementRead(acct))
           /\ threads' = [threads EXCEPT ![i].pc = "done",
                                         ![i].sum = incrementRead(acct),
                                         ![i].captured = captureSequence(acct)]
    /\ increments' = increments + 1
    /\ UNCHANGED <<mode, args, returned, call>>
    /\ UNCHANGED <<amountVars, opsVars, txVars, codecVars>>

NextRace ==
    \/ Capture
    \/ ReadSequence
    \/ WriteSequence
    \/ BuildAtomic

SpecRace == InitRace /\ [][NextRace]_vars

----------------------------------------------------------------------------
(* What the amount claims say, computed from the text itself *)

\* the numeric text the library reads: the string, or the string without
\* surrounding blanks and a leading plus sign
NumericText(chars) ==
    IF Lex(chars).ok THEN chars ELSE StripWhitespaceOrPlus(chars)

IsNumericText(chars) == Lex(NumericText(chars)).ok

\* value * ONE of a numeric text: [integral, digits], moving the decimal point
\* 7 + exp places to the right
Scaled(chars) ==
    LET p == Lex(NumericText(chars))
        all == p.int \o p.frac
        pos == Len(p.int) + p.exp + 7
        whole == IF pos <= 0 THEN <<>>
                 ELSE IF pos >= Len(all) THEN all \o Zeros(pos - Len(all))
                 ELSE Slice(all, 1, pos)
        rest == IF pos <= 0 THEN all
                ELSE IF pos >= Len(all) THEN <<>>
                ELSE Slice(all, pos + 1, Len(all))
    IN  [integral |-> \A i \in 1..Len(rest) : rest[i] = "0",
         digits |-> StripLeadingZeros(whole)]

\* a string denoting a finite decimal without a minus sign, with at most 7
\* fractional digits, at most MAX_INT64 / ONE, and not zero unless az
ExpectedValidAmount(v, az) ==
    /\ isString(v)
    /\ IsNumericText(v.s)
    /\ ~Lex(NumericText(v.s)).neg
    /\ Scaled(v.s).integral
    /\ DigitsLeq(Scaled(v.s).digits, MAX_INT64)
    /\ (az \/ Scaled(v.s).digits # <<"0">>)

MaxAmountText ==
    <<"9", "2", "2", "3", "3", "7", "2", "0", "3", "6", "8", "5", ".",
      "4", "7", "7", "5", "8", "0", "7">>

\* C1: isValidAmount(value, allowZero) returns a boolean (it never throws), and
\* returns true exactly when value is a string denoting a finite non-negative
\* decimal with at most 7 fractional digits whose value times 10,000,000 is at
\* most 9223372036854775807, and that is not zero unless allowZero.
C1_IsValidAmountContract ==
    op = "isValidAmount" => ret = Bool(ExpectedValidAmount(value, allowZero))

C1_Witness ==
    /\ op = "isValidAmount"
    /\ value = Str(MaxAmountText)
    /\ ~allowZero
    /\ ret = Bool(TRUE)

\* C2: for every integer n, the decimal string denoting n / 10,000,000 is
\* accepted by isValidAmount exactly when 1 <= n <= 9223372036854775807, or
\* n = 0 and allowZero is true.
C2_AmountBoundary ==
    \A n \in IntegerInputs :
        (op = "isValidAmount" /\ value = Str(DecimalOf(n)))
            => ret = Bool(/\ ~n.neg \/ n.d = <<"0">>
                          /\ DigitsLeq(n.d, MAX_INT64)
                          /\ (allowZero \/ n.d # <<"0">>))

C2_Witness ==
    /\ op = "isValidAmount"
    /\ ~allowZero
    /\ value = Str(DecimalOf([neg |-> FALSE, d |-> Slice(MAX_INT64, 1, 18) \o <<"8">>]))
    /\ ret = Bool(FALSE)

\* C4: for every string accepted by isValidAmount, _toXDRAmount returns
\* exactly the integer value * 10,000,000, which lies in 0..9223372036854775807.
C4_ToLedgerExact ==
    (op = "_toXDRAmount" /\ isValidAmount(value, TRUE))
        => /\ Scaled(value.s).integral
           /\ ledger = Hyper(FALSE, Scaled(value.s).digits)
           /\ DigitsLeq(ledger.d, MAX_INT64)

C4_Witness ==
    /\ op = "_toXDRAmount"
    /\ value = Str(<<"1", "0", "0", "0">>)
    /\ ledger = Hyper(FALSE, <<"1">> \o Zeros(10))

\* C5: for every ledger integer n in 0..9223372036854775807, _fromXDRAmount(n)
\* is the minimal exact decimal string of n / 10,000,000, isValidAmount(_, true)
\* accepts that string, and _toXDRAmount applied to it returns n.
C5_AmountRoundTrip ==
    (rendered.k = "hyper" /\ ~rendered.neg)
        => /\ value = Str(DecimalOf(rendered))
           /\ (op = "isValidAmount" /\ allowZero) => ret = Bool(TRUE)
           /\ op = "_toXDRAmount" => ledger = rendered

----------------------------------------------------------------------------
(* What the builder claims say *)

\* the account-ids of the inputs: the texts the tests use as valid ones
ValidAccountIds == {AddressA, AddressB}

Called == builder \in Builders /\ built.status # "none"

Built == built.status = "ok"

Decoded == decoded.status = "ok"

\* the builder called with other options
Build(b, o) ==
    CASE b = "createAccount" -> createAccount(o)
      [] b = "emission" -> emission(o)
      [] b = "settlement" -> settlement(o)
      [] b = "payment" -> payment(o)
      [] b = "setOptions" -> setOptions(o)
      [] b = "accountMerge" -> accountMerge(o)
      [] b = "manageData" -> manageData(o)
      [] b = "spendFee" -> spendFee(o)
      [] b = "setFee" -> setFee(o)
      [] b = "restrictAccount" -> restrictAccount(o)

\* the options are accepted once the source is left out
ValidWithoutSource == Build(builder, [given EXCEPT !.source = Undefined]).status = "ok"

AmountBuilders == {"createAccount", "emission", "settlement", "payment", "spendFee"}

AmountField == IF builder = "createAccount" THEN "startingBalance" ELSE "amount"

AmountGiven == IF builder = "createAccount" THEN given.startingBalance ELSE given.amount

\* C3: every amount-taking builder accepts its amount exactly when
\* isValidAmount accepts it (allowZero only for createAccount's
\* startingBalance): it builds nothing for an amount that is not valid, never
\* fails on a valid amount, and an amount that is not valid, a native number
\* included, makes it fail with the TypeError naming the amount field once the
\* destination, which is checked first, has passed.
C3_BuildersCheckAmount ==
    (builder \in AmountBuilders /\ Called)
        => /\ Built => ExpectedValidAmount(AmountGiven, builder = "createAccount")
           /\ ExpectedValidAmount(AmountGiven, builder = "createAccount")
                  => built.err.name # AmountField
           /\ (/\ ~ExpectedValidAmount(AmountGiven, builder = "createAccount")
               /\ (builder = "settlement" \/ given.destination \in ValidAccountIds))
                  => built = Throw(TypeError(AmountField, AmountRequirements))
           /\ (Built /\ builder = "createAccount")
                  => built.attrs.startingBalance
                         = Hyper(FALSE, Scaled(AmountGiven.s).digits)
           /\ (Built /\ builder # "createAccount")
                  => built.attrs.amount = Hyper(FALSE, Scaled(AmountGiven.s).digits)

C3_Witness ==
    /\ builder = "payment"
    /\ given.destination = AddressA
    /\ given.amount = Num(20)
    /\ built = Throw(TypeError("amount", AmountRequirements))

DestinationBuilders == {"createAccount", "emission", "payment", "spendFee", "accountMerge"}

\* C7: createAccount, emission, payment, spendFee and accountMerge fail with
\* "destination is invalid" and return nothing whenever the destination is not
\* a valid account-id (a missing one, an empty or truncated text, a seed), and
\* never fail on the destination when it is a valid account-id.
C7_DestinationChecked ==
    (builder \in DestinationBuilders /\ Called)
        => /\ given.destination \notin ValidAccountIds
                  => built = Throw(Error("destination", " is invalid"))
           /\ given.destination \in ValidAccountIds => built.err.name # "destination"
           /\ (given.destination \in ValidAccountIds /\ Built)
                  => accountIdtoAddress(built.attrs.destination) = given.destination

C7_Witness ==
    /\ builder = "accountMerge"
    /\ given.destination = SeedOfA
    /\ built = Throw(Error("destination", " is invalid"))

\* the value reads as an unsigned integer: a number, or a string parseFloat
\* reads as one
ReadsAsUnsigned(v) ==
    \/ v.t = "number" /\ v.n >= 0
    \/ isString(v) /\ parseFloat(v.s).t = "number" /\ parseFloat(v.s).n >= 0

\* the number a given integer option denotes
NumberGiven(v) ==
    IF isUndefined(v) THEN Undefined ELSE IF isString(v) THEN parseFloat(v.s) ELSE v

\* the fields of restrictAccount that are not valid
RestrictOffending ==
    (IF given.account \in ValidAccountIds THEN {} ELSE {"account"})
        \cup (IF isUndefined(given.clearFlags) \/ ReadsAsUnsigned(given.clearFlags)
              THEN {} ELSE {"clearFlags"})
        \cup (IF isUndefined(given.setFlags) \/ ReadsAsUnsigned(given.setFlags)
              THEN {} ELSE {"setFlags"})

\* C8: restrictAccount fails when the account is not a valid account-id and
\* when clearFlags or setFlags is given and is not an unsigned integer, the
\* failure naming an offending field (account, clearFlags or setFlags); on
\* valid input the decoded operation has the same account and flags.
C8_RestrictAccountValidation ==
    (builder = "restrictAccount" /\ Called)
        => /\ RestrictOffending # {}
                  => built.status = "throw" /\ built.err.name \in RestrictOffending
           /\ (RestrictOffending = {} /\ ValidWithoutSource /\ Decoded)
                  => /\ decoded.account = given.account
                     /\ decoded.clearFlags = NumberGiven(given.clearFlags)
                     /\ decoded.setFlags = NumberGiven(given.setFlags)

SourceError == Throw(Error("", "Source address is invalid"))

\* C9 as stated, "supplied" read as "not undefined": a supplied source that is
\* not a valid account-id makes every builder fail, with "Source address is
\* invalid" when nothing else is wrong; a valid one is the decoded source; a
\* source that is not supplied leaves the operation without source account and
\* the decoded options without source.
C9_SourceAsStated ==
    Called
        => /\ (~isUndefined(given.source) /\ given.source \notin ValidAccountIds)
                  => /\ built.status = "throw"
                     /\ ValidWithoutSource => built = SourceError
           /\ (given.source \in ValidAccountIds /\ Decoded)
                  => decoded.source = given.source
           /\ (isUndefined(given.source) /\ Built) => built.sourceAccount = Undefined
           /\ (isUndefined(given.source) /\ Decoded) => decoded.source = Absent

\* C9: for every operation kind, a source that is given and truthy and is not
\* a valid account-id makes the builder fail, with "Source address is invalid"
\* when the other options are valid; a valid account-id is the source of the
\* decoded operation; a source that is left out or falsy (the empty string,
\* null, 0) is ignored: the operation carries no source account and the
\* decoded options have no source field.
C9_SourceOverride ==
    Called
        => /\ (Truthy(given.source) /\ given.source \notin ValidAccountIds)
                  => /\ built.status = "throw"
                     /\ ValidWithoutSource => built = SourceError
           /\ (given.source \in ValidAccountIds /\ ValidWithoutSource)
                  => /\ Built
                     /\ accountIdtoAddress(built.sourceAccount) = given.source
           /\ (given.source \in ValidAccountIds /\ Decoded)
                  => decoded.source = given.source
           /\ (~Truthy(given.source) /\ ValidWithoutSource)
                  => Built /\ built.sourceAccount = Undefined
           /\ (~Truthy(given.source) /\ Decoded) => decoded.source = Absent

C9_Witness ==
    /\ builder = "payment"
    /\ given.source = AddressB
    /\ Decoded
    /\ decoded.source = AddressB

WeightFields == {"masterWeight", "lowThreshold", "medThreshold", "highThreshold"}

\* the value reads as a number above 255, integer or not
Above255(v) ==
    \/ NumberGiven(v).t \in {"number", "nonint"} /\ NumberGiven(v).n >= 256
    \/ NumberGiven(v).t = "Infinity"

IntegerAbove255(v) == NumberGiven(v).t = "number" /\ NumberGiven(v).n >= 256

\* undefined, or the value reads as an integer in 0..255
WeightInRange(v) ==
    \/ isUndefined(v)
    \/ NumberGiven(v).t = "number" /\ NumberGiven(v).n \in 0..255

BetweenError(name) == Throw(Error(name, " value must be between 0 and 255"))

\* setOptions accepts the options once the field is left out
ValidWithout(f) == setOptions([given EXCEPT ![f] = Undefined]).status = "ok"

ValidWithoutSignerWeight ==
    setOptions([given EXCEPT !.signer.weight = Undefined]).status = "ok"

FieldsOf(b) ==
    CASE b = "createAccount" -> {"destination", "startingBalance", "accountType"}
      [] b \in {"emission", "payment", "spendFee"} -> {"destination", "amount"}
      [] b = "settlement" -> {"amount"}
      [] b = "accountMerge" -> {"destination"}
      [] b = "manageData" -> {"name", "value"}
      [] b = "setFee" -> {"baseFee"}
      [] b = "restrictAccount" -> {"account", "clearFlags", "setFlags"}
      [] b = "setOptions" ->
             {"inflationDest", "clearFlags", "setFlags", "homeDomain"} \cup WeightFields

SignerFields == {"ed25519PublicKey", "sha256Hash", "preAuthTx", "weight", "signerType"}

\* the decoded value is the one given, a value left out being one not decoded
Same(d, g) == d = g \/ (isUndefined(g) /\ d = Absent)

\* the two amount strings denote the same number
SameAmount(d, g) == isString(d) /\ IsNumericText(d.s) /\ Scaled(d.s) = Scaled(g.s)

\* a hash as the signer keeps it: the bytes of its hexadecimal text
HashGiven(v) == IF isString(v) THEN BufferFromHex(v.s) ELSE v

\* what a field decodes to
Expected(f, g) ==
    CASE f \in {"inflationDest", "source"} -> IF Truthy(g) THEN g ELSE Absent
      [] f \in {"clearFlags", "setFlags"} \cup WeightFields -> NumberGiven(g)
      [] f = "value" -> dataValueOf(g)
      [] OTHER -> g

ExpectedSigner(s) ==
    IF ~s.present THEN NoResultSigner
    ELSE [present |-> TRUE,
          ed25519PublicKey |-> IF Truthy(s.ed25519PublicKey)
                               THEN s.ed25519PublicKey ELSE Absent,
          sha256Hash |-> IF Truthy(s.sha256Hash) THEN HashGiven(s.sha256Hash) ELSE Absent,
          preAuthTx |-> IF Truthy(s.preAuthTx) THEN HashGiven(s.preAuthTx) ELSE Absent,
          weight |-> NumberGiven(s.weight),
          signerType |-> s.signerType]

\* C6 as stated: decoding an operation a builder returned gives the type name
\* of the builder and, for every option given, the very value given: address
\* strings, amount strings, flags, names and values, and the source.
C6_RoundTripAsStated ==
    Decoded
        => /\ decoded.type = builder
           /\ \A f \in FieldsOf(builder) \cup {"source"} : Same(decoded[f], given[f])
           /\ given.signer.present
                  => \A f \in SignerFields : Same(decoded.signer[f], given.signer[f])

\* C6: for each of the ten operation kinds and every options record the
\* builder accepts, fromXDRObject gives the matching type name and the options
\* given up to their normal form: address strings, names, the home domain, the
\* account and signer types and the base fee come back as given; an amount
\* comes back as a string denoting the same number, not always the same text
\* ("0.10" as "0.1"); flags, weights and thresholds come back as the number
\* the value reads as ("4" as 4); a data value given as a string and a signer
\* hash given as hexadecimal text come back as their bytes; a source or an
\* inflationDest that is falsy is not decoded at all.
C6_RoundTrip ==
    Decoded
        => /\ decoded.type = builder
           /\ decoded.source = Expected("source", given.source)
           /\ \A f \in FieldsOf(builder) :
                  IF f \in {"amount", "startingBalance"}
                  THEN SameAmount(decoded[f], given[f])
                  ELSE decoded[f] = Expected(f, given[f])
           /\ decoded.signer = ExpectedSigner(given.signer)

C6_Witness ==
    /\ builder = "createAccount"
    /\ given.startingBalance = Str(<<"0", ".", "1", "0">>)
    /\ given.source = AddressB
    /\ Decoded
    /\ decoded.type = "createAccount"
    /\ decoded.startingBalance = Str(<<"0", ".", "1">>)
    /\ decoded.source = AddressB

\* the key options of a signer that are set, that is, truthy
KeysSet(s) ==
    {f \in {"ed25519PublicKey", "sha256Hash", "preAuthTx"} : Truthy(s[f])}

ExactlyOneError ==
    Throw(Error("",
        "Signer object must contain exactly one of signer.ed25519PublicKey, signer.sha256Hash, signer.preAuthTx."))

\* every check of setOptions that comes before the count of the keys passes
BeforeCountValid ==
    /\ FirstError(setOptionsChecks(given)) = NoError
    /\ WeightInRange(given.signer.weight)
    /\ given.signer.signerType \in {Num(ty) : ty \in SignerTypeValues}
    /\ Truthy(given.signer.ed25519PublicKey)
           => given.signer.ed25519PublicKey \in ValidAccountIds
    /\ \A f \in {"sha256Hash", "preAuthTx"} :
           Truthy(given.signer[f])
               => isBuffer(HashGiven(given.signer[f]))
                      /\ Len(HashGiven(given.signer[f]).s) = HashLength

\* C11: setOptions with a signer object builds an operation only if exactly
\* one of signer.ed25519PublicKey, signer.sha256Hash and signer.preAuthTx is
\* set; with two or three of them set, or none, it throws and returns nothing,
\* the error being "Signer object must contain exactly one of ..." when every
\* earlier check passes; with exactly one set the built signer has that key.
C11_SignerExclusivity ==
    (builder = "setOptions" /\ Called /\ given.signer.present)
        => /\ Built => Cardinality(KeysSet(given.signer)) = 1
           /\ Cardinality(KeysSet(given.signer)) # 1 => built.status = "throw"
           /\ (Cardinality(KeysSet(given.signer)) # 1 /\ BeforeCountValid)
                  => built = ExactlyOneError
           /\ (Cardinality(KeysSet(given.signer)) = 1 /\ BeforeCountValid)
                  => built # ExactlyOneError
           /\ Built
                  => built.attrs.signer.arm
                         = (CASE KeysSet(given.signer) = {"ed25519PublicKey"} -> "ed25519"
                              [] KeysSet(given.signer) = {"sha256Hash"} -> "hashX"
                              [] KeysSet(given.signer) = {"preAuthTx"} -> "preAuthTx")

C11_Witness ==
    /\ builder = "setOptions"
    /\ given.signer.ed25519PublicKey = AddressB
    /\ given.signer.sha256Hash = Buf(Hash)
    /\ given.signer.preAuthTx = Undefined
    /\ built = ExactlyOneError

FlagFields == {"setFlags", "clearFlags"}

IsFlagCombination(v) == \E names \in SUBSET FlagNames : v = Num(OrAll(names))

IsDecimalText(v) == isString(v) /\ v.s # <<>> /\ AllDigits(v.s)

\* C12: in setOptions, a setFlags or clearFlags value that is a bitwise OR of
\* flag constants is accepted and decodes to the same integer
\* (AuthRequiredFlag | AuthImmutableFlag to 5), and a flag given as a decimal
\* string is accepted and decodes to the integer it denotes ("4" to 4), never
\* to a string.
C12_FlagComposition ==
    (builder = "setOptions" /\ Called)
        => \A f \in FlagFields :
               /\ (IsFlagCombination(given[f]) \/ IsDecimalText(given[f]))
                      => built.err.name # f
               /\ (IsFlagCombination(given[f]) /\ Decoded) => decoded[f] = given[f]
               /\ (IsDecimalText(given[f]) /\ Decoded)
                      => /\ decoded[f] = Num(CharsToNat(given[f].s))
                         /\ ~isString(decoded[f])

C12_Witness ==
    /\ builder = "setOptions"
    /\ given.setFlags = Num(BitOr(AuthRequiredFlag, AuthImmutableFlag))
    /\ given.clearFlags = Str(<<"4">>)
    /\ Decoded
    /\ decoded.setFlags = Num(5)
    /\ decoded.clearFlags = Num(4)

\* the flags about authorization and those about restriction, by their names
AuthFlags ==
    FlagNames \cap {"AuthRequiredFlag", "AuthRevocableFlag", "AuthImmutableFlag"}

BlockFlags == FlagNames \cap {"BlockIncomingFlag", "BlockOutgoingFlag"}

\* the flag constants whose bit is in a value
FlagsIn(n) == {f \in FlagNames : BitAnd(n, FlagValue(f)) = FlagValue(f)}

\* every flag constant is a power of two, no two are the same, and an
\* OR-combination tells which flags were combined
SingleBitFlags ==
    /\ \A f \in FlagNames : \E k \in 0..31 : FlagValue(f) = Pow2(k)
    /\ \A f, g \in FlagNames : f # g => FlagValue(f) # FlagValue(g)
    /\ \A names \in SUBSET FlagNames : FlagsIn(OrAll(names)) = names
    /\ (builder = "setOptions" /\ Decoded)
           => \A names \in SUBSET FlagNames :
                  given.setFlags = Num(OrAll(names))
                      => FlagsIn(decoded.setFlags.n) = names

\* C13 as stated: the exported flag constants are four single-bit flags, a
\* pair for authorization and a pair for restriction, each a distinct power of
\* two.
C13_FourFlagsAsStated ==
    /\ Cardinality(FlagNames) = 4
    /\ Cardinality(AuthFlags) = 2
    /\ Cardinality(BlockFlags) = 2
    /\ SingleBitFlags

\* C13: the exported flag constants are five independent single-bit flags,
\* three for authorization (AuthRequiredFlag, AuthRevocableFlag,
\* AuthImmutableFlag) and a pair for inbound/outbound restriction
\* (BlockIncomingFlag, BlockOutgoingFlag): every one is a distinct power of
\* two, so an OR-combination of them, also after a round trip through
\* setOptions, determines exactly which flags were combined.
C13_FlagConstants ==
    /\ Cardinality(FlagNames) = 5
    /\ Cardinality(AuthFlags) = 3
    /\ Cardinality(BlockFlags) = 2
    /\ AuthFlags \cup BlockFlags = FlagNames
    /\ SingleBitFlags

C13_Witness ==
    /\ builder = "setOptions"
    /\ given.setFlags = Num(OrAll(FlagNames))
    /\ Decoded
    /\ decoded.setFlags = Num(31)
    /\ FlagsIn(decoded.setFlags.n) = FlagNames

\* the length in bytes of a text or of a Buffer
ByteLength(v) == IF isString(v) THEN Len(Utf8(v.s)) ELSE Len(v.s)

\* the value option is there: not omitted and not null
ValuePresent == ~isUndefined(given.value) /\ given.value # Null

NameWithin(n) == isString(given.name) /\ ByteLength(given.name) <= n

ValueWithin(n) ==
    (isString(given.value) \/ isBuffer(given.value)) /\ ByteLength(given.value) <= n

\* C14: manageData builds an operation only if name is a string of at most 64
\* bytes and value, when present, is a string or byte buffer of at most 64
\* bytes; a name that is not a string, a name of more than 64 bytes and a
\* value of more than 64 bytes make it throw; a name and a value of exactly
\* 64 bytes are accepted.
C14_ManageDataLimits ==
    (builder = "manageData" /\ Called)
        => /\ Built => NameWithin(MaxDataNameLength)
           /\ (Built /\ ValuePresent) => ValueWithin(MaxDataValueLength)
           /\ ~NameWithin(MaxDataNameLength) => built.status = "throw"
           /\ (ValuePresent /\ ~ValueWithin(MaxDataValueLength)) => built.status = "throw"
           /\ (/\ NameWithin(MaxDataNameLength)
               /\ ValueWithin(MaxDataValueLength)
               /\ given.source \in {Undefined} \cup ValidAccountIds)
                  => Built

NoSourceTrouble == given.source \in {Undefined} \cup ValidAccountIds

NoDataValue == {Null, Undefined, Absent}

\* C15 as stated: with a valid name and the value omitted or null, manageData
\* builds an operation without data value, which decodes to the same name and
\* no value.
C15_DeletionAsStated ==
    (/\ builder = "manageData"
     /\ Called
     /\ NameWithin(MaxDataNameLength)
     /\ given.value \in {Undefined, Null}
     /\ NoSourceTrouble)
        => /\ Built
           /\ built.attrs.dataValue \in NoDataValue
           /\ Decoded => decoded.name = given.name /\ decoded.value \in NoDataValue

\* C15: with a valid name and the value given as null, manageData builds an
\* operation whose data value is null, which decodes to the same name and no
\* value; with the value option omitted (undefined) it builds nothing and
\* throws "value must be a string, Buffer or null".
C15_Deletion ==
    (/\ builder = "manageData"
     /\ Called
     /\ NameWithin(MaxDataNameLength)
     /\ NoSourceTrouble)
        => /\ given.value = Null
                  => /\ Built
                     /\ built.attrs.dataValue = Null
                     /\ Decoded
                            => /\ decoded.type = "manageData"
                               /\ decoded.name = given.name
                               /\ decoded.value \in NoDataValue
           /\ isUndefined(given.value)
                  => built = Throw(Error("value", " must be a string, Buffer or null"))

C15_Witness ==
    /\ builder = "manageData"
    /\ given.name = Str(<<"n", "a", "m", "e">>)
    /\ given.value = Null
    /\ Decoded
    /\ decoded.name = given.name
    /\ decoded.value = Null

\* the ten bodies fromXDRObject knows, each with the kind name it gives
KnownTags ==
    { "createAccount", "emission", "settlement", "payment", "setOption",
      "accountMerge", "manageDatum", "spendFee", "setFee", "restrictAccount" }

KindOf(tag) ==
    CASE tag = "setOption" -> "setOptions"
      [] tag = "manageDatum" -> "manageData"
      [] OTHER -> tag

UnknownOperation ==
    [NoResult EXCEPT !.status = "throw", !.err = Error("", "Unknown operation")]

\* C16: fromXDRObject dispatches on the name of the body: for each of the ten
\* known bodies it returns options whose type is the kind name (setOptions for
\* setOption, manageData for manageDatum, the name of the body otherwise), the
\* kind of the builder that made the operation; for any other body it throws
\* "Unknown operation" and returns no object.
C16_Dispatch ==
    decoded.status # "none"
        => /\ built.status = "ok"
           /\ built.tag \in KnownTags
                  => /\ Decoded
                     /\ decoded.type = KindOf(built.tag)
                     /\ decoded.type = builder
                     /\ decoded.type \in Builders
           /\ built.tag \notin KnownTags => decoded = UnknownOperation

C16_Witness ==
    /\ builder = "fromXDR"
    /\ built.status = "ok"
    /\ built.tag = "inflation"
    /\ decoded = UnknownOperation

----------------------------------------------------------------------------
(* What the Account claims say *)

Constructed == acct.status # "none"

\* a decimal integer written as a string: digits after an optional minus sign
IsDecimalInteger(v) ==
    /\ isString(v)
    /\ v.s # <<>>
    /\ IF v.s[1] = "-" THEN Len(v.s) > 1 /\ AllDigits(Tail(v.s)) ELSE AllDigits(v.s)

\* C17: constructing an Account fails, making no Account, when accountId is
\* not a valid account id or sequence is not a decimal integer given as a
\* string; otherwise accountId() and sequenceNumber() return the values given.
C17_AccountConstruction ==
    Constructed =>
        IF args.accountId \in ValidAccountIds /\ IsDecimalInteger(args.sequence)
        THEN /\ acct.status = "ok"
             /\ accountId(acct) = args.accountId
             /\ sequenceNumber(acct) = args.sequence
        ELSE acct.status = "throw"

RECURSIVE DecimalPlus(_, _)
\* the digits of n + k for n given by its digits and k small, computed nine
\* digits at a time
DecimalPlus(d, k) ==
    IF Len(d) <= 9 THEN NatToChars(CharsToNat(d) + k)
    ELSE LET high == Slice(d, 1, Len(d) - 9)
             low == CharsToNat(Slice(d, Len(d) - 8, Len(d))) + k
             pad(s) == Zeros(9 - Len(s)) \o s
         IN  IF low < 1000000000 THEN high \o pad(NatToChars(low))
             ELSE DecimalPlus(high, 1) \o pad(NatToChars(low - 1000000000))

\* an Account exists that was created with a sequence N: an unsigned 64-bit
\* integer written in decimal
CreatedWithSequence ==
    /\ acct.status = "ok"
    /\ IsDecimalInteger(args.sequence)
    /\ AllDigits(args.sequence.s)
    /\ Len(StripLeadingZeros(args.sequence.s)) <= Len(MAX_UINT64)

ReadCalls == {"accountId", "sequenceNumber", "baseFeeValue"}

\* after k increments the sequence is N + k, and that is what sequenceNumber() returns
SequenceIsNPlusK ==
    CreatedWithSequence =>
        /\ toString(acct.sequence)
               = DecimalPlus(StripLeadingZeros(args.sequence.s), increments)
        /\ ~isNegative(acct.sequence)
        /\ call = "sequenceNumber" =>
               returned = Str(DecimalPlus(StripLeadingZeros(args.sequence.s), increments))

\* one call: a read leaves the sequence as it is, an increment raises it by 1
SequenceStep ==
    CreatedWithSequence =>
        /\ compare(acct'.sequence, acct.sequence) \in {0, 1}
        /\ ~isNegative(acct'.sequence)
        /\ call' \in ReadCalls => acct'.sequence = acct.sequence
        /\ call' = "incrementSequenceNumber" =>
               /\ toString(acct'.sequence) = DecimalPlus(toString(acct.sequence), 1)
               /\ compare(acct'.sequence, acct.sequence) = 1

\* C18: over any sequence of calls to accountId(), sequenceNumber(),
\* baseFeeValue() and incrementSequenceNumber() on an Account created with
\* sequence N, the sequence never decreases and never becomes negative, each
\* incrementSequenceNumber() raises it by exactly 1, the reads leave it
\* unchanged, and after k increments sequenceNumber() is the decimal string
\* of N + k.
C18_SequenceInvariant == [](SequenceIsNPlusK) /\ [][SequenceStep]_vars

\* the sequence 99 read as 101 after two increments and some reads
C18_Witness ==
    /\ CreatedWithSequence
    /\ increments >= 2
    /\ call = "sequenceNumber"
    /\ returned = Str(DecimalPlus(args.sequence.s, increments))
    /\ Len(returned.s) > Len(args.sequence.s)

----------------------------------------------------------------------------
(* What the transaction claims say *)

\* the digits of N + k for the sequence N the Account was created with
NPlus(k) == DecimalPlus(StripLeadingZeros(args.sequence.s), k)

\* the transactions built so far carry N+1, N+2, ... in the order they were
\* built, and the Account stands at N + their number
BuildsInOrder ==
    /\ \A i \in 1..Len(txs) : txs[i].sequenceNumber = NPlus(i)
    /\ \A i, j \in 1..Len(txs) : i # j => txs[i].sequenceNumber # txs[j].sequenceNumber
    /\ sequenceNumber(acct) = Str(NPlus(Len(txs)))
    /\ call = "sequenceNumber" => returned = Str(NPlus(Len(txs)))

\* a build that succeeds takes one past the Account's sequence and leaves the
\* Account there; nothing else moves the Account or a captured number
BuildStep ==
    /\ Len(txs') = Len(txs) + 1 =>
           /\ txs'[Len(txs')].sequenceNumber = DecimalPlus(toString(acct.sequence), 1)
           /\ sequenceNumber(acct') = Str(txs'[Len(txs')].sequenceNumber)
    /\ Len(txs') = Len(txs) => acct' = acct
    /\ \A i \in 1..Len(txs) : txs'[i].sequenceNumber = txs[i].sequenceNumber

\* C19: for an Account with sequence N, k successive builds yield
\* transactions with sequence numbers N+1, N+2, ..., N+k in that order, no
\* two builds against the same Account share a sequence number, and after the
\* k builds the Account's sequenceNumber() equals N+k.
C19_SequenceMonotonicity == [](BuildsInOrder) /\ [][BuildStep]_vars

\* two builds done, the second across a carry, and the Account read afterwards
C19_Witness ==
    /\ Len(txs) >= 2
    /\ txs[1].sequenceNumber = NPlus(1)
    /\ txs[2].sequenceNumber = NPlus(2)
    /\ Len(txs[2].sequenceNumber) > Len(txs[1].sequenceNumber)
    /\ call = "sequenceNumber"
    /\ returned = Str(NPlus(2))

Lifecycle == <<"Building", "Sealed", "Signed">>

\* the moves a transaction may make in one step
Arrows == {<<"Building", "Sealed">>, <<"Sealed", "Signed">>}

\* every transaction has gone through the states in order, has signatures
\* only after it was sealed, and sign refuses it while it is Building
SealedBeforeSigned ==
    \A i \in 1..Len(txs) :
        /\ txs[i].trail = SubSeq(Lifecycle, 1, Len(txs[i].trail))
        /\ txs[i].state = txs[i].trail[Len(txs[i].trail)]
        /\ txs[i].signatures # <<>> => txs[i].trail = Lifecycle
        /\ txs[i].state = "Signed" => txs[i].signatures # <<>>
        /\ txs[i].state = "Building" =>
               \A key \in SignerKeys :
                   /\ ~sign(txs[i], key).ok
                   /\ sign(txs[i], key).tx = txs[i]

\* one step moves a transaction along one arrow or not at all, and leaves the
\* signatures of a transaction that is not sealed as they are
LifecycleStep ==
    /\ \A i \in 1..Len(txs) :
           /\ txs'[i].state = txs[i].state \/ <<txs[i].state, txs'[i].state>> \in Arrows
           /\ txs[i].state = "Building" => txs'[i].signatures = txs[i].signatures
    /\ (call' = "sign" /\ \A i \in 1..Len(txs) : txs[i].state = "Building") =>
           outcome' = "throw" /\ txs' = txs
    /\ Len(txs') > Len(txs) => txs'[Len(txs')].state = "Building"

OperationsKept ==
    /\ \A i \in 1..Len(txs) :
           /\ txs[i].operations # <<>>
           /\ ~seal([txs[i] EXCEPT !.state = "Building", !.operations = <<>>]).ok
    /\ call = "build" =>
           IF args.operations = <<>> THEN outcome = "throw"
           ELSE /\ outcome = "ok"
                /\ txs[Len(txs)].operations = args.operations
                /\ txs[Len(txs)].state = "Building"

\* a build that fails makes no transaction and leaves the Account alone, and
\* no step changes the operations of a transaction
OperationsStep ==
    /\ (call' = "build" /\ args'.operations = <<>>) => txs' = txs /\ acct' = acct
    /\ \A i \in 1..Len(txs) : txs'[i].operations = txs[i].operations

\* C21: a transaction never has an empty operation list: build requires at
\* least one operation and fails when given none, sealing with zero
\* operations fails, and the operations of a built transaction keep the
\* order in which they were supplied.
C21_OperationsNonEmpty == [](OperationsKept) /\ [][OperationsStep]_vars

\* a build without operations that failed, after a build of two operations
\* whose transaction was sealed
C21_Witness ==
    /\ call = "build"
    /\ outcome = "throw"
    /\ args.operations = <<>>
    /\ Len(txs) = 1
    /\ txs[1].operations = <<"payment", "setFee">>
    /\ txs[1].state = "Sealed"

\* the last 4 bytes of a key, byte by byte
LastFour(key) == [j \in 1..4 |-> key[Len(key) - 4 + j]]

SigningCalls == {"sign", "addSignature"}

\* every signature of a transaction is over that transaction's payload, under
\* a hint of 4 bytes
SamePayload ==
    \A i \in 1..Len(txs) :
        \A k \in 1..Len(txs[i].signatures) :
            /\ txs[i].signatures[k].signature.over = Payload(txs[i])
            /\ Len(txs[i].signatures[k].hint) = 4

\* a sign or addSignature that succeeds puts one entry at the end of the
\* signature list of its transaction, under the last 4 bytes of the key
\* given, and changes nothing else of any transaction
AppendsOne ==
    (call' \in SigningCalls /\ outcome' = "ok") =>
        /\ args'.target \in 1..Len(txs)
        /\ Len(txs') = Len(txs)
        /\ \A j \in 1..Len(txs) : j # args'.target => txs'[j] = txs[j]
        /\ Len(txs'[args'.target].signatures) = Len(txs[args'.target].signatures) + 1
        /\ SubSeq(txs'[args'.target].signatures, 1, Len(txs[args'.target].signatures))
               = txs[args'.target].signatures
        /\ txs'[args'.target].signatures[Len(txs'[args'.target].signatures)].hint
               = LastFour(args'.publicKey)
        /\ call' = "sign" =>
               txs'[args'.target].signatures[Len(txs'[args'.target].signatures)].signature
                   = [by |-> args'.publicKey, over |-> Payload(txs[args'.target])]
        /\ Payload(txs'[args'.target]) = Payload(txs[args'.target])
        /\ acct' = acct

\* C22: each successful sign or addSignature appends exactly one (hint,
\* signature) entry to the end of the transaction's signature list, with hint
\* the last 4 bytes of that signer's public key; it leaves the earlier
\* signatures, their order and the sealed payload (source, sequence number,
\* fee, time bounds, memo, operations) unchanged, so several signers all
\* sign the identical payload.
C22_SignatureAppend == [](SamePayload) /\ [][AppendsOne]_vars

\* a second signature, attached by addSignature under another key's hint
C22_Witness ==
    /\ call = "addSignature"
    /\ outcome = "ok"
    /\ args.target \in 1..Len(txs)
    /\ Len(txs[args.target].signatures) = 2
    /\ txs[args.target].signatures[1].hint # txs[args.target].signatures[2].hint
    /\ txs[args.target].signatures[2].hint = LastFour(args.publicKey)
    /\ txs[args.target].signatures[2].signature.by # args.publicKey

----------------------------------------------------------------------------
(* StrKey *)

\* the text in hand is the encoding of a raw key of the required size
Encoded ==
    /\ strkey.call \in {"encodeCheck", "decodeCheck", "isValid"}
    /\ strkey.kind # "none"
    /\ Len(strkey.raw) = RawKeyLength

\* C23: for every kind and every raw key of the required size, decoding the
\* encoding as the same kind gives the raw key back and validating it as the
\* same kind gives true; and for every text and kind, isValid gives a boolean
\* that is true exactly when decoding succeeds
C23_StrKeyRoundTrip ==
    /\ strkey.call = "decodeCheck" /\ Encoded /\ strkey.as = strkey.kind
           => strkey.result.ok /\ strkey.result.raw = strkey.raw
    /\ strkey.call = "isValid" /\ Encoded /\ strkey.as = strkey.kind
           => strkey.valid = TRUE
    /\ strkey.call = "isValid"
           => /\ strkey.valid \in BOOLEAN
              /\ strkey.valid <=> decodeCheck(strkey.as, strkey.text).ok

\* a raw key encoded as a secret seed came back from decoding as a secret seed
C23_Witness ==
    /\ strkey.call = "decodeCheck"
    /\ strkey.kind = "ed25519SecretSeed"
    /\ strkey.as = "ed25519SecretSeed"
    /\ strkey.text = SeedOfA
    /\ strkey.result.ok
    /\ strkey.result.raw = strkey.raw
    /\ strkey.raw \in KnownKeys

\* a text refused as the accountId of an Account, as the destination and as
\* the source of an operation that is valid otherwise
RefusedAsAccountId(text) ==
    /\ Account(text, Str(<<"1">>), Undefined).status = "throw"
    /\ payment([NoOpts EXCEPT !.destination = text,
                              !.amount = Str(<<"2", "0">>)])
           = Throw(Error("destination", " is invalid"))
    /\ createAccount([NoOpts EXCEPT !.destination = text,
                                    !.startingBalance = Str(<<"2", "0">>),
                                    !.accountType = Num(1)])
           = Throw(Error("destination", " is invalid"))
    /\ payment([NoOpts EXCEPT !.destination = AddressA,
                              !.amount = Str(<<"2", "0">>),
                              !.source = text])
           = Throw(Error("", "Source address is invalid"))

\* C24: the version bytes of the kinds are pairwise distinct; the encoding
\* of a raw key as one kind, decoded as another kind, fails with
\* InvalidVersion and is not valid as that kind; and the seed text of a raw
\* key is refused where an account-id is expected: as the accountId of an
\* Account, as a destination and as a source
C24_KindSeparation ==
    /\ \A k1, k2 \in Kinds : k1 # k2 => VersionByte(k1) # VersionByte(k2)
    /\ strkey.call = "decodeCheck" /\ Encoded /\ strkey.as # strkey.kind
           => ~strkey.result.ok /\ strkey.result.err = "InvalidVersion"
    /\ strkey.call = "isValid" /\ Encoded /\ strkey.as # strkey.kind
           => strkey.valid = FALSE
    /\ strkey.call = "encodeCheck" /\ Encoded /\ strkey.kind = "ed25519SecretSeed"
           => RefusedAsAccountId(strkey.text)

\* the seed text of a known key was decoded as an account-id and refused
\* for its version
C24_Witness ==
    /\ strkey.call = "decodeCheck"
    /\ strkey.kind = "ed25519SecretSeed"
    /\ strkey.as = "ed25519PublicKey"
    /\ strkey.raw \in KnownKeys
    /\ strkey.text = SeedOfA
    /\ strkey.result.err = "InvalidVersion"
    /\ RefusedAsAccountId(strkey.text)

----------------------------------------------------------------------------
(* Prices *)

\* the exact value of a decimal text, as a fraction; only for numeric texts
ValueOfDecimal(chars) == FractionOfBigNumber(BigNumber(chars))

----------------------------------------------------------------------------
(* The unsigned-integer check *)

\* the text without the blanks it starts with
WithoutLeadingBlanks(chars) == Slice(chars, LeadingBlanks(chars) + 1, Len(chars))

\* the whole text is a decimal literal
IsNumericString(chars) == Lex(WithoutLeadingBlanks(chars)).ok

\* the number a numeric string stands for
NumberOfString(chars) ==
    LET p == Lex(WithoutLeadingBlanks(chars))
    IN  DecimalValue(p.neg, p.int, p.frac, p.exp)

\* the number a value stands for: a number itself, a numeric string its
\* number, anything else none
StatedNumber(v) ==
    IF v.t = "number" THEN v
    ELSE IF isString(v) /\ IsNumericString(v.s) THEN NumberOfString(v.s)
    ELSE NaN

\* what the function given lets through
Lets(f, k) ==
    CASE f = "lessThanTen" -> k < 10
      [] f = "weightCheckFunction" -> k <= 255
      [] OTHER -> TRUE

\* C26: _checkUnsignedIntValue returns undefined for undefined; it returns
\* the number for a non-negative integer, given as a number or as a numeric
\* string, that the function given (if any) lets through; and it throws for
\* every other value
C26_UnsignedCheck ==
    uint.call = "_checkUnsignedIntValue" =>
        IF isUndefined(uint.value)
        THEN uint.result.ok /\ uint.result.val = Undefined
        ELSE IF /\ StatedNumber(uint.value).t = "number"
                /\ StatedNumber(uint.value).n >= 0
                /\ Lets(uint.isValidFunction, StatedNumber(uint.value).n)
        THEN uint.result.ok /\ uint.result.val = StatedNumber(uint.value)
        ELSE ~uint.result.ok

\* the options that go through the unsigned-integer check
UnsignedFields ==
    {"clearFlags", "setFlags", "masterWeight", "lowThreshold", "medThreshold",
     "highThreshold"}

\* a string that is, as a whole, a non-negative integer
IsWholeUnsigned(v) ==
    /\ IsNumericString(v.s)
    /\ NumberOfString(v.s).t = "number"
    /\ NumberOfString(v.s).n >= 0

\* C27: setOptions and restrictAccount build an operation only if every flag,
\* weight and threshold given as a string is, as a whole string, a
\* non-negative integer; a numeric prefix followed by other characters is
\* refused
C27_WholeStringOnly ==
    Called /\ builder \in {"setOptions", "restrictAccount"} /\ built.status = "ok" =>
        /\ \A f \in UnsignedFields : isString(given[f]) => IsWholeUnsigned(given[f])
        /\ isString(given.signer.weight) => IsWholeUnsigned(given.signer.weight)

----------------------------------------------------------------------------
(* Purity of the builders *)

\* C28: a builder leaves the options record it was given, nested objects
\* included, as it was, whether it returns an operation or throws; and
\* building again from the record as the call left it gives the same outcome
C28_BuildersPure ==
    Called =>
        /\ opts = given
        /\ Build(builder, opts) = built

----------------------------------------------------------------------------
(* Fail-fast validation *)

\* the builders whose options are an account-id, an amount, an account type,
\* two flags and a source, and the order in which each checks them
OrderedBuilders ==
    {"createAccount", "emission", "payment", "spendFee", "settlement", "accountMerge",
     "restrictAccount"}

CheckingOrder(b) ==
    CASE b = "createAccount" -> <<"destination", "startingBalance", "accountType", "source">>
      [] b \in {"emission", "payment", "spendFee"} -> <<"destination", "amount", "source">>
      [] b = "settlement" -> <<"amount", "source">>
      [] b = "accountMerge" -> <<"destination", "source">>
      [] b = "restrictAccount" -> <<"clearFlags", "setFlags", "account", "source">>

\* the field of the options is valid for the builder
FieldPasses(b, f, o) ==
    CASE f \in {"destination", "account"} -> o[f] \in ValidAccountIds
      [] f \in {"amount", "startingBalance"} -> ExpectedValidAmount(o[f], b = "createAccount")
      [] f = "accountType" -> o[f].t = "number" /\ o[f].n \in AccountTypeValues
      [] f = "source" -> ~Truthy(o[f]) \/ o[f] \in ValidAccountIds
      [] f \in {"clearFlags", "setFlags"} -> isUndefined(o[f]) \/ ReadsAsUnsigned(o[f])

\* the first field, in checking order, that is not valid; "" when all are
FirstInvalid(b, o) ==
    LET order == CheckingOrder(b)
        bad == {i \in 1..Len(order) : ~FieldPasses(b, order[i], o)}
    IN  IF bad = {} THEN ""
        ELSE order[CHOOSE i \in bad : \A j \in bad : i <= j]

\* the field an error names: the one its message starts with, or the one the
\* messages about the account type and the source speak of
FieldNamed(err) ==
    IF err.name # "" THEN err.name
    ELSE IF err.msg = "Must provide an accountType for a create user operation"
    THEN "accountType"
    ELSE IF err.msg = "Source address is invalid" THEN "source"
    ELSE ""

\* C29: a builder returns an operation only if every field is valid, and
\* otherwise fails with an error naming the first field, in its checking
\* order, that is not valid; createAccount checks destination, then
\* startingBalance, then accountType, then source
C29_FailFast ==
    Called /\ builder \in OrderedBuilders =>
        /\ Built <=> FirstInvalid(builder, given) = ""
        /\ ~Built => FieldNamed(built.err) = FirstInvalid(builder, given)

----------------------------------------------------------------------------
(* Builders side by side *)

\* the builders that have taken a sequence number
Started == {i \in 1..NumBuilders : threads[i].pc # "idle"}

NoDuplicate ==
    \A i, j \in Started : i # j => threads[i].captured # threads[j].captured

\* the Account has counted every increment that was made
NoLostIncrement == toString(acct.sequence) = NPlus(increments)

\* C30: when every build, capture and increment, is one step, then however
\* the builders of one Account are ordered no two of them take the same
\* sequence number and the Account stands at N plus the number of builds;
\* when the steps of the builders interleave, every number taken is still
\* one of N+1 .. N+NumBuilders and the Account never counts more increments
\* than were made, but numbers can be taken twice and increments lost
C30_SequenceRace ==
    /\ mode = "atomic" => NoDuplicate /\ NoLostIncrement
    /\ mode = "interleaved" =>
           /\ \A i \in Started :
                  \E k \in 1..NumBuilders : threads[i].captured = NPlus(k)
           /\ \E k \in 0..increments : toString(acct.sequence) = NPlus(k)
           /\ increments > 0 => toString(acct.sequence) # NPlus(0)

\* interleaved builders have all finished, two of them with the same
\* sequence number, and the Account has lost an increment
C30_Witness ==
    /\ mode = "interleaved"
    /\ \A i \in 1..NumBuilders : threads[i].pc = "done"
    /\ increments = NumBuilders
    /\ ~NoDuplicate
    /\ ~NoLostIncrement
    /\ threads[1].captured = threads[2].captured

====
